---- MODULE Spec2Model ----
(***************************************************************************)
(* A model of mrpack-utils: Modpack.from_files / Modpack._load of          *)
(* src/mrpack_utils/mods.py (archive parsing, the two registry lookups,    *)
(* the stub table and the per-archive reconciliation), the map-diff        *)
(* primitive _diff and run of src/mrpack_utils/commands/diff.py, the       *)
(* listing of src/mrpack_utils/commands/list.py with the rendering of its  *)
(* incompatibility summaries (src/mrpack_utils/output.py), GameVersion and *)
(* Requirement.from_str applied to strings, and _MrpackFile.from_file on   *)
(* one archive with every defect an archive may have.                      *)
(*                                                                         *)
(* Strings that the code orders (hashes, project ids) are modelled as      *)
(* naturals, whose order stands for Python's string order.  Strings the    *)
(* code takes apart (paths, version strings) are sequences of their parts. *)
(***************************************************************************)
EXTENDS Integers, Sequences, FiniteSets, TLC

VARIABLES files, pc, mrpacks, http_log, versions, known_hashes, projects,
          mod_stubs, modpacks, error,
          d_old, d_new, d_out,
          l_modpack, l_game_versions, l_dev, l_out,
          g_in, g_out

vars == <<files, pc, mrpacks, http_log, versions, known_hashes, projects,
          mod_stubs, modpacks, error, d_old, d_new, d_out,
          l_modpack, l_game_versions, l_dev, l_out, g_in, g_out>>

load_vars == <<files, pc, mrpacks, http_log, versions, known_hashes, projects,
               mod_stubs, modpacks, error>>

diff_vars == <<d_old, d_new, d_out>>

list_vars == <<l_modpack, l_game_versions, l_dev, l_out>>

version_vars == <<g_in, g_out>>

(***************************************************************************)
(* Bounds of the model.                                                    *)
(***************************************************************************)
MaxPacks == 2
MaxFiles == 2
MaxHash == 2
MaxPid == 2
MaxCalls == 2

Hashes == 1..MaxHash
Pids == 1..MaxPid

(***************************************************************************)
(* Generic helpers: Python's sorted() on a set, the iteration orders a set *)
(* may have, the last element of a list.                                   *)
(***************************************************************************)
Orders(S) ==
    {s \in [1..Cardinality(S) -> S] :
        \A i, j \in 1..Cardinality(S) : i # j => s[i] # s[j]}

Sorted(S) ==
    CHOOSE s \in Orders(S) : \A i, j \in 1..Cardinality(S) : i < j => s[i] < s[j]

Range(s) == {s[i] : i \in DOMAIN s}

SeqsUpTo(S, n) == UNION {[1..k -> S] : k \in 0..n}

NoError == [type |-> "none", title |-> "", cause |-> ""]

(***************************************************************************)
(* Requirement.from_str and Env.from_dict.  "ValueError" stands for the    *)
(* raised exception.                                                       *)
(***************************************************************************)
RequirementFromStr(s) ==
    IF s = "" THEN "UNKNOWN"
    ELSE IF s = "required" THEN "REQUIRED"
    ELSE IF s = "optional" THEN "OPTIONAL"
    ELSE IF s = "unsupported" THEN "UNSUPPORTED"
    ELSE "ValueError"

RequirementValid(s) == RequirementFromStr(s) # "ValueError"

\* Env.from_dict raises ValueError exactly when EnvValid is false.
EnvValid(env) ==
    /\ DOMAIN env = {"client", "server"}
    /\ RequirementValid(env["client"])
    /\ RequirementValid(env["server"])

EnvFromDict(env) ==
    [client |-> RequirementFromStr(env["client"]),
     server |-> RequirementFromStr(env["server"])]

(***************************************************************************)
(* GameVersion.  A version string is the sequence of its characters; the   *)
(* constructor accepts [0-9]+\.[0-9]+(\.[0-9]+)? and keeps the tuple of    *)
(* the segments' integer values.                                           *)
(***************************************************************************)
DigitChars == {"0", "1", "2", "3", "4", "5", "6", "7", "8", "9"}

DigitVal(c) ==
    CASE c = "0" -> 0 [] c = "1" -> 1 [] c = "2" -> 2 [] c = "3" -> 3
      [] c = "4" -> 4 [] c = "5" -> 5 [] c = "6" -> 6 [] c = "7" -> 7
      [] c = "8" -> 8 [] c = "9" -> 9

RECURSIVE SplitDots(_)
\* str.split("."): the segments between the dots, empty ones included
SplitDots(s) ==
    IF \A i \in DOMAIN s : s[i] # "."
    THEN <<s>>
    ELSE LET d == CHOOSE i \in DOMAIN s : s[i] = "." /\ \A k \in 1..(i-1) : s[k] # "."
         IN <<SubSeq(s, 1, d - 1)>> \o SplitDots(SubSeq(s, d + 1, Len(s)))

IsDigits(seg) == Len(seg) > 0 /\ \A i \in DOMAIN seg : seg[i] \in DigitChars

RECURSIVE IntOf(_)
\* int(segment)
IntOf(seg) ==
    IF Len(seg) = 0 THEN 0
    ELSE 10 * IntOf(SubSeq(seg, 1, Len(seg) - 1)) + DigitVal(seg[Len(seg)])

\* GameVersion(version) raises ValueError exactly when GameVersionValid is false.
GameVersionValid(version) ==
    LET segs == SplitDots(version)
    IN Len(segs) \in {2, 3} /\ \A i \in DOMAIN segs : IsDigits(segs[i])

GameVersion(version) ==
    LET segs == SplitDots(version)
    IN [i \in DOMAIN segs |-> IntOf(segs[i])]

\* mutant of VersionLess: a tuple is not less than a longer tuple it is a prefix of
VersionLessNoPrefix(a, b) ==
    \E i \in 1..Len(a) :
        /\ i <= Len(b)
        /\ a[i] < b[i]
        /\ \A k \in 1..(i-1) : a[k] = b[k]

\* GameVersion.__lt__: Python's tuple comparison
VersionLess(a, b) ==
    \/ \E i \in 1..Len(a) :
          /\ i <= Len(b)
          /\ a[i] < b[i]
          /\ \A k \in 1..(i-1) : a[k] = b[k]
    \/ /\ Len(a) < Len(b)
       /\ \A k \in 1..Len(a) : a[k] = b[k]

DigitChar(d) ==
    CASE d = 0 -> "0" [] d = 1 -> "1" [] d = 2 -> "2" [] d = 3 -> "3"
      [] d = 4 -> "4" [] d = 5 -> "5" [] d = 6 -> "6" [] d = 7 -> "7"
      [] d = 8 -> "8" [] d = 9 -> "9"

\* mutant of StrOfInt: only the last digit is written
StrOfIntLastDigit(n) == <<DigitChar(n % 10)>>

RECURSIVE StrOfInt(_)
\* str(segment) of a non-negative integer: its decimal digits, no leading zero
StrOfInt(n) ==
    IF n < 10 THEN <<DigitChar(n)>>
    ELSE StrOfInt(n \div 10) \o <<DigitChar(n % 10)>>

RECURSIVE JoinDots(_)
\* ".".join(segments)
JoinDots(segs) ==
    IF Len(segs) = 0 THEN <<>>
    ELSE IF Len(segs) = 1 THEN segs[1]
    ELSE segs[1] \o <<".">> \o JoinDots(Tail(segs))

\* GameVersion.__repr__, which str() uses
FormatVersion(v) == JoinDots([i \in DOMAIN v |-> StrOfInt(v[i])])

\* GameVersion.__hash__: hash() of the tuple, here a small polynomial hash of it
TupleHash(t) ==
    LET RECURSIVE H(_)
        H(k) == IF k = 0 THEN 7 ELSE (31 * H(k - 1) + t[k]) % 65536
    IN H(Len(t))

\* from_list without the grammar: every dotted run of digits is kept
GameVersionFromListAnyDigits(versionlist) ==
    {GameVersion(versionlist[i]) :
        i \in {k \in DOMAIN versionlist :
                  /\ versionlist[k] # <<>>
                  /\ \A n \in DOMAIN SplitDots(versionlist[k]) :
                         IsDigits(SplitDots(versionlist[k])[n])}}

\* GameVersion.from_list: the entries that parse, as a set
GameVersionFromList(versionlist) ==
    {GameVersion(versionlist[i]) : i \in {k \in DOMAIN versionlist : GameVersionValid(versionlist[k])}}

\* min() in the place of max()
MinVersion(S) == CHOOSE v \in S : \A w \in S : w = v \/ VersionLess(v, w)

\* max() over a non-empty set of versions
MaxVersion(S) == CHOOSE v \in S : \A w \in S : w = v \/ VersionLess(w, v)

(***************************************************************************)
(* _MrpackFile.from_file.  An archive on disk is either unreadable (the    *)
(* zip cannot be opened, has no index, or the index is not JSON; "defect"  *)
(* is the message of the exception) or carries the keys of its index and   *)
(* the names of its entries.  An entry of the index's "files" list has the *)
(* hash, the path (the sequence of its "/"-separated components) and,      *)
(* optionally, an "env" block.                                             *)
(***************************************************************************)
EnvOverride == [client |-> "required", server |-> "optional"]

IndexEntries ==
    {[sha512 |-> h, path |-> <<"mods", "b.jar">>] : h \in Hashes}
    \cup {[sha512 |-> h, path |-> <<"mods", "a.jar">>, env |-> EnvOverride] : h \in Hashes}

Archives ==
    {[readable |-> FALSE, files |-> <<>>]}
    \cup {[readable |-> TRUE, files |-> f] : f \in SeqsUpTo(IndexEntries, MaxFiles)}

\* the i-th archive of a batch: its own name, version and entries
PackMeta(i) ==
    LET names == <<"Test Modpack", "Other Modpack">>
        versionIds == <<"1", "2">>
        minecraft == <<(<<"1", ".", "1", "9", ".", "4">>), (<<"1", ".", "2", "0">>)>>
        namelists ==
            <<(<< <<"modrinth.index.json">>, <<"overrides", "mods", "a.jar">> >>),
              (<< <<"modrinth.index.json">>, <<"client-overrides", "mods", "b.jar">>,
                  <<"overrides", "config", "foo.txt">> >>)>>
        k == ((i - 1) % 2) + 1
    IN [defect |-> "File is not a zip file",
        name |-> names[k],
        versionId |-> versionIds[k],
        dependencies |-> [minecraft |-> minecraft[k]],
        namelist |-> namelists[k]]

\* mutant of JarName: the path is recorded whole
JarNameWholePath(path) == path

\* file["path"].split("/")[-1]: the path that is the last component alone
JarName(path) == <<path[Len(path)]>>

\* a dict comprehension keeps, for a repeated key, the last entry's value
LastIndex(entries, I, h) ==
    CHOOSE i \in I : entries[i].sha512 = h /\ \A k \in I : entries[k].sha512 = h => k <= i

WithEnv(entries) == {i \in DOMAIN entries : "env" \in DOMAIN entries[i]}

\* PurePath.suffix of the file names of the model
Suffix(name) ==
    IF name \in {"a.jar", "b.jar", "c.jar", "d.jar"} THEN ".jar"
    ELSE IF name = "foo.txt" THEN ".txt"
    ELSE IF name = "modrinth.index.json" THEN ".json"
    ELSE ""

\* the loop over z.namelist(): path.name of the jars whose path.parent is a mods directory
UnknownMods(namelist) ==
    LET parent(path) == SubSeq(path, 1, Len(path) - 1)
        name(path) == <<path[Len(path)]>>
        dirs == {<<"overrides", "mods">>, <<"server-overrides", "mods">>,
                 <<"client-overrides", "mods">>}
    IN {name(namelist[i]) :
           i \in {k \in DOMAIN namelist :
                     /\ Suffix(namelist[k][Len(namelist[k])]) = ".jar"
                     /\ parent(namelist[k]) \in dirs}}

\* str(e) of the first exception raised inside from_file, "" when there is none
EnvCause(env) ==
    IF DOMAIN env # {"client", "server"} THEN "Env must have keys {client, server}"
    ELSE IF ~RequirementValid(env["client"]) \/ ~RequirementValid(env["server"])
    THEN "Requirement value must be one of {required, optional, unsupported}"
    ELSE ""

FromFileCause(archive) ==
    IF ~archive.readable THEN archive.defect
    ELSE IF "name" \notin DOMAIN archive THEN "'name'"
    ELSE IF "versionId" \notin DOMAIN archive THEN "'versionId'"
    ELSE IF "dependencies" \notin DOMAIN archive THEN "'dependencies'"
    ELSE IF "minecraft" \notin DOMAIN archive.dependencies THEN "'minecraft'"
    ELSE IF ~GameVersionValid(archive.dependencies["minecraft"]) THEN "Not a valid game version"
    ELSE IF "files" \notin DOMAIN archive THEN "'files'"
    ELSE LET bad == {i \in WithEnv(archive.files) : EnvCause(archive.files[i].env) # ""}
         IN IF bad = {} THEN ""
            ELSE EnvCause(archive.files[CHOOSE i \in bad : \A k \in bad : i <= k].env)

FromFileRaises(archive) == FromFileCause(archive) # ""

FromFile(archive) ==
    LET entries == archive.files
        all == DOMAIN entries
    IN [name |-> archive.name,
        version |-> archive.versionId,
        game_version |-> GameVersion(archive.dependencies["minecraft"]),
        mod_hashes |-> {entries[i].sha512 : i \in all},
        mod_jars |-> [h \in {entries[i].sha512 : i \in all} |->
                        JarName(entries[LastIndex(entries, all, h)].path)],
        mod_envs |-> [h \in {entries[i].sha512 : i \in WithEnv(entries)} |->
                        EnvFromDict(entries[LastIndex(entries, WithEnv(entries), h)].env)],
        unknown_mods |-> UnknownMods(archive.namelist)]

(***************************************************************************)
(* The registry.  Lookup #1 answers with a map from some of the requested  *)
(* hashes to version records, lookup #2 with a list of project records;    *)
(* either may fail in transport.                                           *)
(***************************************************************************)
TransportErrors == {"HTTPError", "Timeout"}

VersionRecords(h) ==
    [project_id : Pids, version_number : {h}, files : SUBSET Hashes]

VersionsResponses(hashes) ==
    UNION {{r \in [D -> UNION {VersionRecords(h) : h \in D}] :
                \A h \in D : r[h] \in VersionRecords(h)} : D \in SUBSET hashes}

Titles == <<"Foo", "Bar">>
Slugs == <<"foo", "bar">>
GameVersionLists ==
    <<(<< <<"1", ".", "1", "9", ".", "2">>, <<"1", ".", "2", "0">> >>),
      (<< <<"1", ".", "1", "9", ".", "4">> >>)>>

TitleOf(p) == Titles[((p - 1) % Len(Titles)) + 1]
SlugOf(p) == Slugs[((p - 1) % Len(Slugs)) + 1]
GameVersionsOf(p) == GameVersionLists[((p - 1) % Len(GameVersionLists)) + 1]

Without(f, key) == [k \in DOMAIN f \ {key} |-> f[k]]

MinimalProject(p) ==
    [id |-> p, title |-> TitleOf(p), slug |-> SlugOf(p), game_versions |-> GameVersionsOf(p)]

FullProject(p) ==
    [id |-> p, title |-> TitleOf(p), slug |-> SlugOf(p), game_versions |-> GameVersionsOf(p),
     client_side |-> "optional", server_side |-> "optional", license |-> [id |-> "MIT"],
     source_url |-> "example.com", issues_url |-> "example2.com"]

ProjectRecords(p) ==
    LET good == IF p % 2 = 1 THEN MinimalProject(p) ELSE FullProject(p)
    IN {good, Without(good, "title"), Without(good, "slug")}

\* the answers to a request for the ids ids[1], ids[2], ...: one record or none per id
RECURSIVE ProjectsResponses(_)
ProjectsResponses(ids) ==
    IF Len(ids) = 0 THEN {<<>>}
    ELSE LET rest == ProjectsResponses(Tail(ids))
         IN rest \cup {<<r>> \o t : r \in ProjectRecords(Head(ids)), t \in rest}

(***************************************************************************)
(* Modpack._fetch_versions, _fetch_projects and _load.                     *)
(***************************************************************************)
AllHashes(packs) == UNION {packs[i].mod_hashes : i \in DOMAIN packs}

KnownHashes(vs) == UNION {vs[h].files : h \in DOMAIN vs}

ProjectIds(vs) == {vs[h].project_id : h \in DOMAIN vs}

\* mutant of VersionsRequest: the hashes are sent unsorted (here: in descending order)
VersionsRequestUnsorted(hashes) ==
    [call |-> "version_files",
     payload |-> [k \in 1..Cardinality(hashes) |-> Sorted(hashes)[Cardinality(hashes) + 1 - k]]]

VersionsRequest(hashes) == [call |-> "version_files", payload |-> Sorted(hashes)]

ProjectsRequest(vs) == [call |-> "projects", payload |-> Sorted(ProjectIds(vs))]

Get(f, key, default) == IF key \in DOMAIN f THEN f[key] ELSE default

Put(f, key, value) == [k \in DOMAIN f \cup {key} |-> IF k = key THEN value ELSE f[k]]

\* the exception raised while a project record is turned into a stub ("" if none):
\* the keyword arguments are evaluated in order, the subscript project["id"] last
StubCause(project) ==
    IF "title" \notin DOMAIN project THEN "KeyError: title"
    ELSE IF "slug" \notin DOMAIN project THEN "KeyError: slug"
    ELSE IF ~RequirementValid(Get(project, "client", "")) THEN "ValueError: client"
    ELSE IF ~RequirementValid(Get(project, "server", "")) THEN "ValueError: server"
    ELSE IF "license" \in DOMAIN project /\ "id" \notin DOMAIN project["license"]
         THEN "KeyError: id"
    ELSE IF "game_versions" \notin DOMAIN project THEN "KeyError: game_versions"
    ELSE IF "id" \notin DOMAIN project THEN "KeyError: id"
    ELSE ""

ModStub(project) ==
    [name |-> project["title"],
     slug |-> project["slug"],
     env |-> [client |-> RequirementFromStr(Get(project, "client", "")),
              server |-> RequirementFromStr(Get(project, "server", ""))],
     mod_license |-> IF "license" \notin DOMAIN project THEN "" ELSE project["license"]["id"],
     source_url |-> Get(project, "source_url", ""),
     issues_url |-> Get(project, "issues_url", ""),
     game_versions |-> GameVersionFromList(project["game_versions"])]

\* the except clause of the stub loop formats project['title'] into the message
StubError(project) ==
    IF "title" \in DOMAIN project
    THEN [type |-> "ModpackError", title |-> project["title"], cause |-> StubCause(project)]
    ELSE [type |-> "KeyError", title |-> "", cause |-> "title"]

RECURSIVE ModStubs(_, _)
\* the dict the stub loop has built after the given records, in order
ModStubs(records, acc) ==
    IF Len(records) = 0 THEN acc
    ELSE ModStubs(Tail(records), Put(acc, Head(records)["id"], ModStub(Head(records))))

\* Mod.__init__ raises ValueError (max of an empty set) when the stub supports no version
Mod(stub, version, overridden_env) ==
    [name |-> stub.name,
     link |-> <<"https://modrinth.com/mod/", stub.slug>>,
     version |-> version,
     original_env |-> stub.env,
     overridden_env |-> overridden_env,
     mod_license |-> stub.mod_license,
     source_url |-> stub.source_url,
     issues_url |-> stub.issues_url,
     game_versions |-> stub.game_versions,
     latest_game_version |-> MaxVersion(stub.game_versions)]

EmptyAcc == [mods |-> <<>>, missing_mods |-> {}, raised |-> ""]

RECURSIVE ResolveHashesDropsMissing(_, _, _, _, _, _)
\* mutant of ResolveHashes: a hash that is not known is skipped, not recorded as missing
ResolveHashesDropsMissing(mrpack, order, vs, known, stubs, acc) ==
    IF Len(order) = 0 \/ acc.raised # "" THEN acc
    ELSE LET mod_hash == Head(order)
         IN IF mod_hash \in known
            THEN IF mod_hash \notin DOMAIN vs
                 THEN [acc EXCEPT !.raised = "KeyError"]
                 ELSE LET mod_id == vs[mod_hash].project_id
                      IN IF mod_id \notin DOMAIN stubs
                         THEN [acc EXCEPT !.raised = "KeyError"]
                         ELSE IF stubs[mod_id].game_versions = {}
                         THEN [acc EXCEPT !.raised = "ValueError"]
                         ELSE ResolveHashesDropsMissing(mrpack, Tail(order), vs, known, stubs,
                                [acc EXCEPT !.mods =
                                    Put(@, mod_id,
                                        Mod(stubs[mod_id], vs[mod_hash].version_number,
                                            Get(mrpack.mod_envs, mod_hash, stubs[mod_id].env)))])
            ELSE ResolveHashesDropsMissing(mrpack, Tail(order), vs, known, stubs, acc)

RECURSIVE ResolveHashes(_, _, _, _, _, _)
\* the inner loop of _load over one archive's hashes, taken in the given order
ResolveHashes(mrpack, order, vs, known, stubs, acc) ==
    IF Len(order) = 0 \/ acc.raised # "" THEN acc
    ELSE LET mod_hash == Head(order)
         IN IF mod_hash \in known
            THEN IF mod_hash \notin DOMAIN vs
                 THEN [acc EXCEPT !.raised = "KeyError"]
                 ELSE LET mod_id == vs[mod_hash].project_id
                      IN IF mod_id \notin DOMAIN stubs
                         THEN [acc EXCEPT !.raised = "KeyError"]
                         ELSE IF stubs[mod_id].game_versions = {}
                         THEN [acc EXCEPT !.raised = "ValueError"]
                         ELSE ResolveHashes(mrpack, Tail(order), vs, known, stubs,
                                [acc EXCEPT !.mods =
                                    Put(@, mod_id,
                                        Mod(stubs[mod_id], vs[mod_hash].version_number,
                                            Get(mrpack.mod_envs, mod_hash, stubs[mod_id].env)))])
            ELSE ResolveHashes(mrpack, Tail(order), vs, known, stubs,
                    [acc EXCEPT !.missing_mods = @ \cup {mrpack.mod_jars[mod_hash]}])

(***************************************************************************)
(* Modpack.from_files as a state machine.                                  *)
(*   pc = "from_files"      the archives are being parsed, in order        *)
(*   pc = "fetch_versions"  _load is about to issue lookup #1              *)
(*   pc = "fetch_projects"  lookup #1 has returned, lookup #2 is next      *)
(*   pc = "stubs"           lookup #2 has returned, the stub loop is next  *)
(*   pc = "resolve"         the archives are being reconciled, in order    *)
(*   pc = "returned"        the tuple of manifests has been returned       *)
(*   pc = "raised"          an exception has left from_files               *)
(***************************************************************************)
LoadInit ==
    /\ files \in UNION {{[i \in 1..n |-> c[i] @@ PackMeta(i)] : c \in [1..n -> Archives]} :
                         n \in 1..MaxPacks}
    /\ pc = "from_files"
    /\ mrpacks = <<>>
    /\ http_log = <<>>
    /\ versions = <<>>
    /\ known_hashes = {}
    /\ projects = <<>>
    /\ mod_stubs = <<>>
    /\ modpacks = <<>>
    /\ error = NoError

DiffIdle == d_old = <<>> /\ d_new = <<>> /\ d_out = <<>>

ListIdle == l_modpack = <<>> /\ l_game_versions = {} /\ l_dev = FALSE /\ l_out = <<>>

VersionIdle == g_in = <<>> /\ g_out = <<>>

Init == LoadInit /\ DiffIdle /\ ListIdle /\ VersionIdle

FromFileOk ==
    /\ pc = "from_files"
    /\ ~FromFileRaises(files[Len(mrpacks) + 1])
    /\ mrpacks' = Append(mrpacks, FromFile(files[Len(mrpacks) + 1]))
    /\ pc' = IF Len(mrpacks) + 1 = Len(files) THEN "fetch_versions" ELSE "from_files"
    /\ UNCHANGED <<files, http_log, versions, known_hashes, projects, mod_stubs, modpacks, error>>
    /\ UNCHANGED <<diff_vars, list_vars, version_vars>>

\* an archive that fails to parse is left out and the resolution goes on
FromFileRaiseSkipped ==
    /\ pc = "from_files"
    /\ FromFileRaises(files[Len(mrpacks) + 1])
    /\ pc' = "fetch_versions"
    /\ UNCHANGED <<files, mrpacks, http_log, versions, known_hashes, projects, mod_stubs,
                   modpacks, error>>
    /\ UNCHANGED <<diff_vars, list_vars, version_vars>>

\* from_file without its except clause: the exception leaves as it was raised
FromFileRaiseUnwrapped ==
    /\ pc = "from_files"
    /\ FromFileRaises(files[Len(mrpacks) + 1])
    /\ error' = [type |-> "Exception", title |-> "",
                 cause |-> FromFileCause(files[Len(mrpacks) + 1])]
    /\ pc' = "raised"
    /\ UNCHANGED <<files, mrpacks, http_log, versions, known_hashes, projects, mod_stubs, modpacks>>
    /\ UNCHANGED <<diff_vars, list_vars, version_vars>>

\* raise ModpackError("Failed to load mrpack file: " + str(e)): cause is str(e)
FromFileRaise ==
    /\ pc = "from_files"
    /\ FromFileRaises(files[Len(mrpacks) + 1])
    /\ error' = [type |-> "ModpackError", title |-> "",
                 cause |-> FromFileCause(files[Len(mrpacks) + 1])]
    /\ pc' = "raised"
    /\ UNCHANGED <<files, mrpacks, http_log, versions, known_hashes, projects, mod_stubs, modpacks>>
    /\ UNCHANGED <<diff_vars, list_vars, version_vars>>

FetchVersionsOk ==
    /\ pc = "fetch_versions"
    /\ http_log' = Append(http_log, VersionsRequest(AllHashes(mrpacks)))
    /\ \E response \in VersionsResponses(AllHashes(mrpacks)) :
          /\ versions' = response
          /\ known_hashes' = KnownHashes(response)
    /\ pc' = "fetch_projects"
    /\ UNCHANGED <<files, mrpacks, projects, mod_stubs, modpacks, error>>
    /\ UNCHANGED <<diff_vars, list_vars, version_vars>>

\* mutant of FetchVersionsRaise: the failed hash lookup is swallowed and _load goes on
FetchVersionsRaiseSwallowed ==
    /\ pc = "fetch_versions"
    /\ http_log' = Append(http_log, VersionsRequest(AllHashes(mrpacks)))
    /\ \E e \in TransportErrors : error' = [type |-> e, title |-> "", cause |-> "version_files"]
    /\ pc' = "fetch_projects"
    /\ UNCHANGED <<files, mrpacks, versions, known_hashes, projects, mod_stubs, modpacks>>
    /\ UNCHANGED <<diff_vars, list_vars, version_vars>>

FetchVersionsRaise ==
    /\ pc = "fetch_versions"
    /\ http_log' = Append(http_log, VersionsRequest(AllHashes(mrpacks)))
    /\ \E e \in TransportErrors : error' = [type |-> e, title |-> "", cause |-> "version_files"]
    /\ pc' = "raised"
    /\ UNCHANGED <<files, mrpacks, versions, known_hashes, projects, mod_stubs, modpacks>>
    /\ UNCHANGED <<diff_vars, list_vars, version_vars>>

FetchProjectsOk ==
    /\ pc = "fetch_projects"
    /\ http_log' = Append(http_log, ProjectsRequest(versions))
    /\ \E response \in ProjectsResponses(Sorted(ProjectIds(versions))) : projects' = response
    /\ pc' = "stubs"
    /\ UNCHANGED <<files, mrpacks, versions, known_hashes, mod_stubs, modpacks, error>>
    /\ UNCHANGED <<diff_vars, list_vars, version_vars>>

FetchProjectsRaise ==
    /\ pc = "fetch_projects"
    /\ http_log' = Append(http_log, ProjectsRequest(versions))
    /\ \E e \in TransportErrors : error' = [type |-> e, title |-> "", cause |-> "projects"]
    /\ pc' = "raised"
    /\ UNCHANGED <<files, mrpacks, versions, known_hashes, projects, mod_stubs, modpacks>>
    /\ UNCHANGED <<diff_vars, list_vars, version_vars>>

BadProjects == {i \in DOMAIN projects : StubCause(projects[i]) # ""}

StubsOk ==
    /\ pc = "stubs"
    /\ BadProjects = {}
    /\ mod_stubs' = ModStubs(projects, <<>>)
    /\ pc' = "resolve"
    /\ UNCHANGED <<files, mrpacks, http_log, versions, known_hashes, projects, modpacks, error>>
    /\ UNCHANGED <<diff_vars, list_vars, version_vars>>

StubsRaise ==
    /\ pc = "stubs"
    /\ BadProjects # {}
    /\ LET first == CHOOSE i \in BadProjects : \A k \in BadProjects : i <= k
       IN error' = StubError(projects[first])
    /\ pc' = "raised"
    /\ UNCHANGED <<files, mrpacks, http_log, versions, known_hashes, projects, mod_stubs, modpacks>>
    /\ UNCHANGED <<diff_vars, list_vars, version_vars>>

\* the hashes of an archive are always taken in sorted order
ResolutionsSortedOnly(mrpack) ==
    {ResolveHashes(mrpack, Sorted(mrpack.mod_hashes), versions, known_hashes, mod_stubs, EmptyAcc)}

Resolutions(mrpack) ==
    {ResolveHashes(mrpack, order, versions, known_hashes, mod_stubs, EmptyAcc) :
        order \in Orders(mrpack.mod_hashes)}

ResolveOk ==
    /\ pc = "resolve"
    /\ \E r \in Resolutions(mrpacks[Len(modpacks) + 1]) :
          /\ r.raised = ""
          /\ modpacks' = Append(modpacks,
                                 [name |-> mrpacks[Len(modpacks) + 1].name,
                                  version |-> mrpacks[Len(modpacks) + 1].version,
                                  game_version |-> mrpacks[Len(modpacks) + 1].game_version,
                                  mods |-> r.mods,
                                  missing_mods |-> r.missing_mods,
                                  unknown_mods |-> mrpacks[Len(modpacks) + 1].unknown_mods])
    /\ pc' = IF Len(modpacks) + 1 = Len(mrpacks) THEN "returned" ELSE "resolve"
    /\ UNCHANGED <<files, mrpacks, http_log, versions, known_hashes, projects, mod_stubs, error>>
    /\ UNCHANGED <<diff_vars, list_vars, version_vars>>

ResolveRaise ==
    /\ pc = "resolve"
    /\ \E r \in Resolutions(mrpacks[Len(modpacks) + 1]) :
          /\ r.raised # ""
          /\ error' = [type |-> r.raised, title |-> "", cause |-> "resolve"]
    /\ pc' = "raised"
    /\ UNCHANGED <<files, mrpacks, http_log, versions, known_hashes, projects, mod_stubs, modpacks>>
    /\ UNCHANGED <<diff_vars, list_vars, version_vars>>

Next ==
    \/ FromFileOk
    \/ FromFileRaise
    \/ FetchVersionsOk
    \/ FetchVersionsRaise
    \/ FetchProjectsOk
    \/ FetchProjectsRaise
    \/ StubsOk
    \/ StubsRaise
    \/ ResolveOk
    \/ ResolveRaise

Spec == Init /\ [][Next]_vars

(***************************************************************************)
(* _MrpackFile.from_file on one archive, with everything an archive may    *)
(* lack: a zip that opens, the index, valid JSON, each required key, a     *)
(* valid "minecraft" version, well-formed "env" blocks; and with entries   *)
(* inside and outside the override trees.                                  *)
(***************************************************************************)
ZipDefects ==
    {"File is not a zip file",
     "There is no item named 'modrinth.index.json' in the archive",
     "Expecting value: line 1 column 1 (char 0)"}

EnvBlocks ==
    {EnvOverride,
     [client |-> "required"],
     [client |-> "required", server |-> "optional", extra |-> ""],
     [client |-> "required", server |-> "foo"],
     [client |-> "unknown", server |-> "required"]}

RichEntries ==
    {[sha512 |-> 1, path |-> <<"mods", "a.jar">>],
     [sha512 |-> 2, path |-> <<"overrides", "mods", "a.jar">>]}
    \cup {[sha512 |-> 1, path |-> <<"mods", "a.jar">>, env |-> e] : e \in EnvBlocks}

EntryPaths ==
    <<(<<"overrides", "mods", "a.jar">>),
      (<<"server-overrides", "mods", "a.jar">>),
      (<<"client-overrides", "mods", "b.jar">>),
      (<<"overrides", "config", "foo.txt">>),
      (<<"overrides", "mods", "sub", "d.jar">>),
      (<<"mods", "c.jar">>)>>

RECURSIVE SubSeqs(_)
SubSeqs(s) ==
    IF s = <<>> THEN {<<>>}
    ELSE SubSeqs(Tail(s)) \cup {<<Head(s)>> \o t : t \in SubSeqs(Tail(s))}

\* z.namelist(): some of the entries, in the order of the archive
Namelists == SubSeqs(EntryPaths)

DependencyBlocks ==
    {[minecraft |-> <<"1", ".", "1", "9", ".", "4">>],
     [minecraft |-> <<"1", "9", ".", "2", "-", "d", "e", "v">>],
     [forge |-> <<"4", "7">>]}

FullIndex(d, f, n) ==
    [readable |-> TRUE, name |-> "Test Modpack", versionId |-> "1.1",
     dependencies |-> d, files |-> f, namelist |-> n]

FromFileInit ==
    /\ \/ \E d \in ZipDefects : files = <<[readable |-> FALSE, defect |-> d]>>
       \/ \E d \in DependencyBlocks, f \in SeqsUpTo(RichEntries, MaxFiles), n \in Namelists :
             \/ files = <<FullIndex(d, f, n)>>
             \/ \E key \in {"name", "versionId", "dependencies", "files"} : files = <<Without(FullIndex(d, f, n), key)>>
    /\ pc = "from_files"
    /\ mrpacks = <<>>
    /\ http_log = <<>>
    /\ versions = <<>>
    /\ known_hashes = {}
    /\ projects = <<>>
    /\ mod_stubs = <<>>
    /\ modpacks = <<>>
    /\ error = NoError
    /\ DiffIdle
    /\ ListIdle
    /\ VersionIdle

FromFileNext ==
    \/ FromFileOk
    \/ FromFileRaise

FromFileSpec == FromFileInit /\ [][FromFileNext]_vars

(***************************************************************************)
(* commands/diff.py.  A mapping is a function from its keys to its values. *)
(* The sets _diff sorts are iterated in an order Python does not fix (it   *)
(* changes with the hash seed), and sorted() is stable, so every function  *)
(* below yields the set of results the iteration orders allow.             *)
(***************************************************************************)
DiffKeys == {"a", "A", "B"}
DiffValues == {"1", "2"}
StringMaps == UNION {[D -> DiffValues] : D \in SUBSET DiffKeys}

\* str.lower()
Lower(k) == CASE k = "A" -> "a" [] k = "B" -> "b" [] OTHER -> k

\* ord(): Python orders strings by code point
CodePoint(c) == CASE c = "A" -> 65 [] c = "B" -> 66 [] c = "a" -> 97 [] c = "b" -> 98

Position(order, k) == CHOOSE i \in DOMAIN order : order[i] = k

\* mutant of SortKey: the keys are sorted as they are, case-sensitively
SortKeyCaseSensitive(k) == CodePoint(k)

\* the sort key of _diff: lambda s: s.lower()
SortKey(k) == CodePoint(Lower(k))

\* sorted(keys, key=...) of a set iterated in the given order: ascending by key,
\* equal keys in iteration order
SortedByKey(order) ==
    CHOOSE s \in Orders(Range(order)) :
        \A i, j \in DOMAIN s : i < j =>
            \/ SortKey(s[i]) < SortKey(s[j])
            \/ SortKey(s[i]) = SortKey(s[j]) /\ Position(order, s[i]) < Position(order, s[j])

\* mutant of UpdatedKeys: every kept key is reported, changed or not
UpdatedKeysAllKept(old, new) == DOMAIN old \cap DOMAIN new

UpdatedKeys(old, new) == {k \in DOMAIN old \cap DOMAIN new : new[k] # old[k]}

AddedKeys(old, new) == DOMAIN new \ DOMAIN old

\* mutant of RemovedKeys: the keys only in old are computed from new, so none is found
RemovedKeysFromNew(old, new) == DOMAIN new \ DOMAIN new

RemovedKeys(old, new) == DOMAIN old \ DOMAIN new

Diff(old, new) ==
    {[i \in DOMAIN u |-> <<u[i], old[u[i]], new[u[i]]>>]
        \o [i \in DOMAIN a |-> <<a[i], "", new[a[i]]>>]
        \o [i \in DOMAIN r |-> <<r[i], old[r[i]], "">>] :
        u \in {SortedByKey(o) : o \in Orders(UpdatedKeys(old, new))},
        a \in {SortedByKey(o) : o \in Orders(AddedKeys(old, new))},
        r \in {SortedByKey(o) : o \in Orders(RemovedKeys(old, new))}}

ScalarRows(old, new) ==
    (IF old.name # new.name THEN <<(<<"modpack name", old.name, new.name>>)>> ELSE <<>>)
    \o (IF old.version # new.version
        THEN <<(<<"modpack version", old.version, new.version>>)>> ELSE <<>>)
    \o (IF old.game_version # new.game_version
        THEN <<(<<"minecraft", FormatVersion(old.game_version),
                  FormatVersion(new.game_version)>>)>>
        ELSE <<>>)

DiffModpackData(old, new) ==
    {ScalarRows(old, new) \o d : d \in Diff(old.dependencies, new.dependencies)}

\* the comprehension stops after the first mod
NameToVersionFirstOnly(mods, acc) ==
    IF Len(mods) = 0 THEN acc ELSE Put(acc, Head(mods).name, Head(mods).version)

RECURSIVE NameToVersion(_, _)
\* {mod.name: mod.version for mod in mods.values()}, the mods taken in dict order
NameToVersion(mods, acc) ==
    IF Len(mods) = 0 THEN acc
    ELSE NameToVersion(Tail(mods), Put(acc, Head(mods).name, Head(mods).version))

\* mutant of DiffMods: the new name-to-version map is diffed against the old one
DiffModsSwapped(old, new) == Diff(NameToVersion(new.mods, <<>>), NameToVersion(old.mods, <<>>))

DiffMods(old, new) == Diff(NameToVersion(old.mods, <<>>), NameToVersion(new.mods, <<>>))

DiffUnknownMods(old, new) == Diff(old.unknown_mods, new.unknown_mods)

DiffOtherFiles(old, new) == Diff(old.other_files, new.other_files)

(***************************************************************************)
(* The manifests the diff functions are applied to: every map of           *)
(* StringMaps occurs as the dependencies, as the name-to-version map of    *)
(* the mods and as the unknown and other files of a manifest.              *)
(***************************************************************************)
ModsOf(map) ==
    LET names == SortedByKey(CHOOSE o \in Orders(DOMAIN map) : TRUE)
    IN [i \in DOMAIN names |-> [id |-> i, name |-> names[i], version |-> map[names[i]]]]

Manifest(name, version, game_version, map) ==
    [name |-> name, version |-> version, game_version |-> game_version,
     dependencies |-> map, mods |-> ModsOf(map), unknown_mods |-> map, other_files |-> map]

OldManifests == {Manifest("Test 1", "1", <<1, 19, 2>>, map) : map \in StringMaps}

NewManifests ==
    {Manifest(name, version, game_version, map) :
        name \in {"Test 1", "Test 2"}, version \in {"1", "2"},
        game_version \in {<<1, 19, 2>>, <<1, 19, 4>>}, map \in StringMaps}

LoadIdle ==
    /\ files = <<>>
    /\ pc = "idle"
    /\ mrpacks = <<>>
    /\ http_log = <<>>
    /\ versions = <<>>
    /\ known_hashes = {}
    /\ projects = <<>>
    /\ mod_stubs = <<>>
    /\ modpacks = <<>>
    /\ error = NoError

DiffInit ==
    /\ LoadIdle
    /\ ListIdle
    /\ VersionIdle
    /\ d_old \in OldManifests
    /\ d_new \in NewManifests
    /\ d_out = <<>>

Returned(fn, rows) == [fn |-> fn, rows |-> rows]

\* _diff is invoked on one pair of maps up to MaxCalls times; nothing is kept between calls
CallDiff ==
    /\ Len(d_out) < MaxCalls
    /\ \A i \in DOMAIN d_out : d_out[i].fn = "_diff"
    /\ \E rows \in Diff(d_old.dependencies, d_new.dependencies) :
          d_out' = Append(d_out, Returned("_diff", rows))
    /\ UNCHANGED <<d_old, d_new>>
    /\ UNCHANGED <<load_vars, list_vars, version_vars>>

CallModpackData ==
    /\ d_out = <<>>
    /\ \E rows \in DiffModpackData(d_old, d_new) : d_out' = <<Returned("_modpack_data", rows)>>
    /\ UNCHANGED <<d_old, d_new>>
    /\ UNCHANGED <<load_vars, list_vars, version_vars>>

CallMods ==
    /\ d_out = <<>>
    /\ \E rows \in DiffMods(d_old, d_new) : d_out' = <<Returned("_mods", rows)>>
    /\ UNCHANGED <<d_old, d_new>>
    /\ UNCHANGED <<load_vars, list_vars, version_vars>>

CallUnknownMods ==
    /\ d_out = <<>>
    /\ \E rows \in DiffUnknownMods(d_old, d_new) : d_out' = <<Returned("_unknown_mods", rows)>>
    /\ UNCHANGED <<d_old, d_new>>
    /\ UNCHANGED <<load_vars, list_vars, version_vars>>

CallOtherFiles ==
    /\ d_out = <<>>
    /\ \E rows \in DiffOtherFiles(d_old, d_new) : d_out' = <<Returned("_other_files", rows)>>
    /\ UNCHANGED <<d_old, d_new>>
    /\ UNCHANGED <<load_vars, list_vars, version_vars>>

DiffNext ==
    \/ CallDiff
    \/ CallModpackData
    \/ CallMods
    \/ CallUnknownMods
    \/ CallOtherFiles

DiffSpec == DiffInit /\ [][DiffNext]_vars

(***************************************************************************)
(* diff.run on the two manifests Modpack.from_files returned.  Each map of *)
(* a manifest has values of its own (dependency versions, mod versions,    *)
(* fingerprints of unknown and of other files), so a row shows which map   *)
(* it was computed from.  The mods of a manifest are listed in the order   *)
(* of its mods dict; project 1 is named "a", project 2 is named "a" or "B" *)
(* (two projects may share a display name), the same in both manifests.    *)
(***************************************************************************)
MapOfOne(v) == [k \in {"a"} |-> v]

MapOfTwo(v, w) == [k \in {"a", "B"} |-> IF k = "a" THEN v ELSE w]

DependencyMaps == {<<>>, MapOfOne("d1"), MapOfTwo("d2", "d1")}

UnknownMaps == {MapOfOne("u1"), MapOfTwo("u2", "u1")}

OtherMaps == {MapOfOne("o1"), MapOfTwo("o2", "o1")}

MissingSets == {{<<"baz.jar">>}, {<<"baz.jar">>, <<"foo.jar">>}}

ModRecords(name2) ==
    {[id |-> 1, name |-> "a", version |-> v] : v \in {"m1", "m2"}}
        \cup {[id |-> 2, name |-> name2, version |-> "m3"]}

\* the mods dicts over the records above: one Mod per project id, in any insertion order
ModLists(name2) ==
    UNION {Orders(S) : S \in {T \in SUBSET ModRecords(name2) :
                                 \A x, y \in T : x.id = y.id => x = y}}

RunManifests(name2, names, versions_, game_versions, deps, unknown, other, missing) ==
    {[name |-> n, version |-> v, game_version |-> g, dependencies |-> d, mods |-> m,
      missing_mods |-> mi, unknown_mods |-> u, other_files |-> o] :
        n \in names, v \in versions_, g \in game_versions, d \in deps,
        m \in ModLists(name2), mi \in missing, u \in unknown, o \in other}

RunInit ==
    /\ LoadIdle
    /\ ListIdle
    /\ VersionIdle
    /\ \E name2 \in {"a", "B"} :
          /\ d_old \in RunManifests(name2, {"Test 1"}, {"1"}, {<<1, 19, 2>>}, DependencyMaps,
                                    {MapOfOne("u1")}, {MapOfOne("o1")}, {{<<"baz.jar">>}})
          /\ d_new \in RunManifests(name2, {"Test 1", "Test 2"}, {"1", "2"},
                                    {<<1, 19, 2>>, <<1, 19, 4>>}, DependencyMaps,
                                    UnknownMaps, OtherMaps, MissingSets)
    /\ d_out = <<>>

DiffHeader == <<"Name", "Old", "New">>

\* mutant of DiffRunTable: the mod rows are placed before the rows of _modpack_data
DiffRunTableModsFirst(old, new) ==
    {<<DiffHeader>> \o mo \o md \o un \o ot :
        md \in DiffModpackData(old, new), mo \in DiffMods(old, new),
        un \in DiffUnknownMods(old, new), ot \in DiffOtherFiles(old, new)}

\* the rows of the Table run returns
DiffRunTable(old, new) ==
    {<<DiffHeader>> \o md \o mo \o un \o ot :
        md \in DiffModpackData(old, new), mo \in DiffMods(old, new),
        un \in DiffUnknownMods(old, new), ot \in DiffOtherFiles(old, new)}

DiffRun ==
    /\ d_out = <<>>
    /\ \E rows \in DiffRunTable(d_old, d_new) :
          d_out' = <<[fn |-> "run", rows |-> rows,
                      missing |-> d_old.missing_mods \cup d_new.missing_mods]>>
    /\ UNCHANGED <<d_old, d_new>>
    /\ UNCHANGED <<load_vars, list_vars, version_vars>>

RunNext == DiffRun

RunSpec == RunInit /\ [][RunNext]_vars

(***************************************************************************)
(* commands/list.py.  A row is the sequence of its cells; the text of a    *)
(* version is the sequence of its characters, every other cell a string.   *)
(* A Mod is an object without __eq__, so two Mods are the same element of  *)
(* a set only when they are the same object: the records below carry the   *)
(* project id as that identity.                                            *)
(***************************************************************************)
LeadingHeaders ==
    <<"Name", "Link", "Installed version", "On client", "On server", "Latest game version">>

DevHeaders == <<"License", "Modrinth client", "Modrinth server", "Source", "Issues">>

\* sorted() of a set of versions: ascending by GameVersion.__lt__
SortedVersions(S) ==
    CHOOSE s \in Orders(S) : \A i, j \in DOMAIN s : i < j => VersionLess(s[i], s[j])

\* mutant of ListHeaders: the version columns are left in an order sorted() did not make
ListHeadersDescending(game_versions, dev) ==
    LET s == SortedVersions(game_versions)
    IN LeadingHeaders \o [i \in DOMAIN s |-> FormatVersion(s[Len(s) + 1 - i])]
         \o (IF dev THEN DevHeaders ELSE <<>>)

\* _headers
ListHeaders(game_versions, dev) ==
    LET s == SortedVersions(game_versions)
    IN LeadingHeaders \o [i \in DOMAIN s |-> FormatVersion(s[i])]
         \o (IF dev THEN DevHeaders ELSE <<>>)

\* _empty_row
EmptyRow(headers) == [i \in DOMAIN headers |-> ""]

\* headers.index(h): the first position holding h
HeaderIndex(headers, h) ==
    CHOOSE i \in DOMAIN headers : headers[i] = h /\ \A k \in 1..(i - 1) : headers[k] # h

\* sorted(map.items()): the keys are distinct, so the pairs are ordered by key, by code point
SortedItems(map) ==
    LET keys == CHOOSE s \in Orders(DOMAIN map) :
                    \A i, j \in DOMAIN s : i < j => CodePoint(s[i]) < CodePoint(s[j])
    IN [i \in DOMAIN keys |-> <<keys[i], map[keys[i]]>>]

\* _row of _modpack_data
NameVersionRow(headers, name, version) ==
    [EmptyRow(headers) EXCEPT ![HeaderIndex(headers, "Name")] = name,
                              ![HeaderIndex(headers, "Installed version")] = version]

\* _modpack_data of list.py
ListModpackData(modpack, headers) ==
    LET items == SortedItems(modpack.dependencies)
    IN <<NameVersionRow(headers, <<"modpack: ", modpack.name>>, modpack.version),
         NameVersionRow(headers, "minecraft", FormatVersion(modpack.game_version))>>
         \o [i \in DOMAIN items |-> NameVersionRow(headers, items[i][1], items[i][2])]

\* Requirement.name.lower()
RequirementLower(r) ==
    CASE r = "UNKNOWN" -> "unknown" [] r = "REQUIRED" -> "required"
      [] r = "OPTIONAL" -> "optional" [] r = "UNSUPPORTED" -> "unsupported"

\* sorted(modpack.mods.values(), key=lambda m: m.name.lower()): stable, so mods whose
\* lowered names are equal stay in the order of the mods dict
SortedMods(mods) ==
    LET idx == CHOOSE s \in Orders(DOMAIN mods) :
                   \A i, j \in DOMAIN s : i < j =>
                       \/ SortKey(mods[s[i]].name) < SortKey(mods[s[j]].name)
                       \/ SortKey(mods[s[i]].name) = SortKey(mods[s[j]].name) /\ s[i] < s[j]
    IN [i \in DOMAIN idx |-> mods[idx[i]]]

\* Mod.compatible_with
CompatibleWith(mod, version) == version \in mod.game_versions

\* the row _mods builds for one mod
ModRow(mod, game_versions, dev) ==
    LET s == SortedVersions(game_versions)
    IN <<mod.name, mod.link, mod.version,
         RequirementLower(mod.overridden_env.client),
         RequirementLower(mod.overridden_env.server),
         FormatVersion(mod.latest_game_version)>>
         \o [i \in DOMAIN s |-> IF CompatibleWith(mod, s[i]) THEN "yes" ELSE "no"]
         \o (IF dev
             THEN <<mod.mod_license, RequirementLower(mod.original_env.client),
                    RequirementLower(mod.original_env.server), mod.source_url, mod.issues_url>>
             ELSE <<>>)

\* mutant of ListMods: a mod is recorded as incompatible with the versions it supports
ListModsInverted(modpack, game_versions, dev) ==
    LET sorted == SortedMods(modpack.mods)
    IN [rows |-> [i \in DOMAIN sorted |-> ModRow(sorted[i], game_versions, dev)],
        incompatible |->
            [v \in game_versions |->
                {sorted[i] : i \in {k \in DOMAIN sorted : CompatibleWith(sorted[k], v)}}]]

\* _mods of list.py: the rows and the incompatibility map
ListMods(modpack, game_versions, dev) ==
    LET sorted == SortedMods(modpack.mods)
    IN [rows |-> [i \in DOMAIN sorted |-> ModRow(sorted[i], game_versions, dev)],
        incompatible |->
            [v \in game_versions |->
                {sorted[i] : i \in {k \in DOMAIN sorted : ~CompatibleWith(sorted[k], v)}}]]

\* _unknown_mods of list.py
ListUnknownMods(modpack, game_versions, dev) ==
    LET items == SortedItems(modpack.unknown_mods)
        n == Cardinality(game_versions)
    IN [i \in DOMAIN items |->
           <<items[i][1], "unknown - probably CurseForge", items[i][2],
             "unknown", "unknown", "unknown">>
             \o [k \in 1..n |-> "check manually"]
             \o (IF dev THEN [k \in 1..5 |-> ""] ELSE <<>>)]

\* _other_files of list.py
ListOtherFiles(modpack, headers) ==
    LET items == SortedItems(modpack.other_files)
    IN [i \in DOMAIN items |->
           [NameVersionRow(headers, items[i][1], items[i][2])
               EXCEPT ![HeaderIndex(headers, "Link")] = "non-mod file"]]

\* mutant of ListRunTable: the rows of the unknown files are placed before the mod rows
ListRunTableUnknownFirst(modpack, game_versions, dev) ==
    LET headers == ListHeaders(game_versions, dev)
    IN <<headers>> \o ListModpackData(modpack, headers)
         \o ListUnknownMods(modpack, game_versions, dev)
         \o ListMods(modpack, game_versions, dev).rows
         \o ListOtherFiles(modpack, headers)

\* the rows of the Table list.run returns, game_versions being the checked versions
ListRunTable(modpack, game_versions, dev) ==
    LET headers == ListHeaders(game_versions, dev)
    IN <<headers>> \o ListModpackData(modpack, headers)
         \o ListMods(modpack, game_versions, dev).rows
         \o ListUnknownMods(modpack, game_versions, dev)
         \o ListOtherFiles(modpack, headers)

\* the IncompatibleMods elements list.run returns, one per checked version, ascending
ListRunSummaries(modpack, game_versions, dev) ==
    LET s == SortedVersions(game_versions)
        incompatible == ListMods(modpack, game_versions, dev).incompatible
    IN [i \in DOMAIN s |->
           [num_mods |-> Len(modpack.mods),
            game_version |-> FormatVersion(s[i]),
            mods |-> {mod.name : mod \in incompatible[s[i]]},
            curseforge_warning |-> Cardinality(DOMAIN modpack.unknown_mods) > 0]]

\* mutant of CheckedVersions: only the versions the caller supplied are checked
CheckedVersionsSuppliedOnly(modpack, supplied) == supplied

\* game_versions = set(game_versions); game_versions.add(modpack.game_version)
CheckedVersions(modpack, supplied) == supplied \cup {modpack.game_version}

\* IncompatibleMods.render: the version named, the count and the total of the sentence
\* (or the "all compatible" sentence), the qualifier, and the names listed below it
RenderIncompatibleMods(element) ==
    [game_version |-> element.game_version,
     all_compatible |-> element.mods = {},
     count |-> Cardinality(element.mods),
     total |-> element.num_mods,
     qualified |-> element.curseforge_warning,
     names |-> SortedByKey(CHOOSE o \in Orders(element.mods) : TRUE)]

(***************************************************************************)
(* The manifests list.run is applied to.  Project 1 is named "a" and       *)
(* supports 1.19.2 and 1.20; project 2 is named "a" or "B" and supports    *)
(* 1.19.4 and 1.19.2.  The caller may ask for 1.9 and 1.20 to be checked.  *)
(***************************************************************************)
ListStub(p, name2) ==
    IF p = 1
    THEN [name |-> "a", slug |-> "foo",
          env |-> [client |-> "OPTIONAL", server |-> "OPTIONAL"],
          mod_license |-> "MIT", source_url |-> "example.com", issues_url |-> "example2.com",
          game_versions |-> {<<1, 19, 2>>, <<1, 20>>}]
    ELSE [name |-> name2, slug |-> "bar",
          env |-> [client |-> "REQUIRED", server |-> "UNKNOWN"],
          mod_license |-> "", source_url |-> "", issues_url |-> "",
          game_versions |-> {<<1, 19, 4>>, <<1, 19, 2>>}]

ListMod(p, name2) ==
    Put(Mod(ListStub(p, name2), IF p = 1 THEN "m1" ELSE "m3",
            [client |-> "REQUIRED", server |-> "OPTIONAL"]), "id", p)

ListModLists(name2) == UNION {Orders({ListMod(p, name2) : p \in P}) : P \in SUBSET {1, 2}}

ListManifests ==
    {[name |-> "Test Modpack", version |-> "1", game_version |-> g, dependencies |-> d,
      mods |-> m, missing_mods |-> {<<"baz.jar">>}, unknown_mods |-> u, other_files |-> o] :
        g \in {<<1, 19, 4>>, <<1, 20>>}, d \in DependencyMaps,
        m \in ListModLists("a") \cup ListModLists("B"),
        u \in {<<>>, MapOfTwo("u2", "u1")}, o \in {<<>>, MapOfTwo("o2", "o1")}}

SuppliedVersions == SUBSET {<<1, 9>>, <<1, 20>>}

ListInit ==
    /\ LoadIdle
    /\ DiffIdle
    /\ VersionIdle
    /\ l_modpack \in ListManifests
    /\ l_game_versions \in SuppliedVersions
    /\ l_dev \in BOOLEAN
    /\ l_out = <<>>

\* _mods called on the manifest and the supplied versions, as the tests call it
CallListMods ==
    /\ l_out = <<>>
    /\ l_out' = <<[fn |-> "_mods",
                   rows |-> ListMods(l_modpack, l_game_versions, l_dev).rows,
                   incompatible |-> ListMods(l_modpack, l_game_versions, l_dev).incompatible]>>
    /\ UNCHANGED <<l_modpack, l_game_versions, l_dev>>
    /\ UNCHANGED <<load_vars, diff_vars, version_vars>>

\* list.run on the manifest Modpack.from_files returned
ListRun ==
    /\ l_out = <<>>
    /\ LET game_versions == CheckedVersions(l_modpack, l_game_versions)
       IN l_out' = <<[fn |-> "run",
                      checked |-> game_versions,
                      table |-> ListRunTable(l_modpack, game_versions, l_dev),
                      missing |-> l_modpack.missing_mods,
                      summaries |-> ListRunSummaries(l_modpack, game_versions, l_dev)]>>
    /\ UNCHANGED <<l_modpack, l_game_versions, l_dev>>
    /\ UNCHANGED <<load_vars, diff_vars, version_vars>>

\* output.render on the elements list.run returned: each summary is rendered
RenderSummaries ==
    /\ Len(l_out) = 1
    /\ l_out[1].fn = "run"
    /\ l_out' = Append(l_out,
                       [fn |-> "render",
                        text |-> [i \in DOMAIN l_out[1].summaries |->
                                     RenderIncompatibleMods(l_out[1].summaries[i])]])
    /\ UNCHANGED <<l_modpack, l_game_versions, l_dev>>
    /\ UNCHANGED <<load_vars, diff_vars, version_vars>>

ListNext ==
    \/ CallListMods
    \/ ListRun
    \/ RenderSummaries

ListSpec == ListInit /\ [][ListNext]_vars

(***************************************************************************)
(* GameVersion applied to strings: three strings are constructed, the      *)
(* versions obtained are compared and hashed, formatted with str(), and    *)
(* the texts are constructed and formatted again; then the three strings   *)
(* are given to GameVersion.from_list as one list, and a Mod is            *)
(* constructed with the set obtained as its supported versions.            *)
(***************************************************************************)
VersionStrings ==
    {<<"1", ".", "2">>,
     <<"1", ".", "1", "0">>,
     <<"1", ".", "2", "0">>,
     <<"1", ".", "2", "0", ".", "1">>,
     <<"1", ".", "0", "2">>,
     <<"0", "1", ".", "2">>,
     <<"1", ".", "1", "9", ".", "4">>,
     <<"0", ".", "0">>,
     <<"1">>,
     <<"a">>,
     <<"1", "9", ".", "2", "-", "d", "e", "v">>,
     <<"1", ".">>,
     <<".", "1">>,
     <<"1", ".", ".", "2">>,
     <<"1", ".", "2", ".", "3", ".", "4">>,
     <<>>,
     <<"1", ".", "2", ".">>}

VersionInit ==
    /\ LoadIdle
    /\ DiffIdle
    /\ ListIdle
    /\ g_in \in [1..3 -> VersionStrings]
    /\ g_out = <<>>

\* GameVersion(s): the object with its _version tuple, or ValueError
Construct(str) ==
    IF GameVersionValid(str)
    THEN [raised |-> "", version |-> GameVersion(str)]
    ELSE [raised |-> "ValueError", version |-> <<>>]

ConstructAll ==
    /\ g_out = <<>>
    /\ g_out' = <<[i \in DOMAIN g_in |-> Construct(g_in[i])]>>
    /\ UNCHANGED g_in
    /\ UNCHANGED <<load_vars, diff_vars, list_vars>>

Constructed == {i \in DOMAIN g_out[1] : g_out[1][i].raised = ""}

\* a < b, a == b and hash(a) for the versions constructed
CompareAll ==
    /\ Len(g_out) = 1
    /\ g_out' = Append(g_out,
                       [lt |-> [i \in Constructed |-> [j \in Constructed |->
                                   VersionLess(g_out[1][i].version, g_out[1][j].version)]],
                        eq |-> [i \in Constructed |-> [j \in Constructed |->
                                   g_out[1][i].version = g_out[1][j].version]],
                        hash |-> [i \in Constructed |-> TupleHash(g_out[1][i].version)]])
    /\ UNCHANGED g_in
    /\ UNCHANGED <<load_vars, diff_vars, list_vars>>

\* str(v) for the versions constructed
FormatAll ==
    /\ Len(g_out) = 2
    /\ g_out' = Append(g_out, [i \in Constructed |-> FormatVersion(g_out[1][i].version)])
    /\ UNCHANGED g_in
    /\ UNCHANGED <<load_vars, diff_vars, list_vars>>

\* GameVersion(str(v)) and its str() for the versions constructed
ReconstructAll ==
    /\ Len(g_out) = 3
    /\ g_out' = Append(g_out,
                       [i \in Constructed |->
                           [again |-> Construct(g_out[3][i]),
                            text |-> IF GameVersionValid(g_out[3][i])
                                     THEN FormatVersion(GameVersion(g_out[3][i]))
                                     ELSE <<>>]])
    /\ UNCHANGED g_in
    /\ UNCHANGED <<load_vars, diff_vars, list_vars>>

\* GameVersion.from_list(g_in): ValueError is suppressed entry by entry
FromList ==
    /\ Len(g_out) = 4
    /\ g_out' = Append(g_out, [raised |-> "", versions |-> GameVersionFromList(g_in)])
    /\ UNCHANGED g_in
    /\ UNCHANGED <<load_vars, diff_vars, list_vars>>

\* the stub of a project that supports the versions S
VersionStub(S) ==
    [name |-> "Foo", slug |-> "foo",
     env |-> [client |-> "UNKNOWN", server |-> "UNKNOWN"],
     mod_license |-> "", source_url |-> "", issues_url |-> "",
     game_versions |-> S]

\* Mod(...): max() of an empty set raises ValueError out of __init__
ConstructMod ==
    /\ Len(g_out) = 5
    /\ g_out' = Append(g_out,
                       IF g_out[5].versions = {}
                       THEN [raised |-> "ValueError"]
                       ELSE [raised |-> "",
                             mod |-> Mod(VersionStub(g_out[5].versions), "1.2.3",
                                         [client |-> "UNKNOWN", server |-> "UNKNOWN"])])
    /\ UNCHANGED g_in
    /\ UNCHANGED <<load_vars, diff_vars, list_vars>>

VersionNext ==
    \/ ConstructAll
    \/ CompareAll
    \/ FormatAll
    \/ ReconstructAll
    \/ FromList
    \/ ConstructMod

VersionSpec == VersionInit /\ [][VersionNext]_vars

(***************************************************************************)
(* Requirement.from_str applied to strings: g_in holds three strings and   *)
(* g_out the member, or the ValueError, obtained for each.                 *)
(***************************************************************************)
RequirementStrings ==
    {"", "unknown", "required", "optional", "unsupported", "Required", "foo"}

RequirementInit ==
    /\ LoadIdle
    /\ DiffIdle
    /\ ListIdle
    /\ g_in \in [1..3 -> RequirementStrings]
    /\ g_out = <<>>

FromStrAll ==
    /\ g_out = <<>>
    /\ g_out' = <<[i \in DOMAIN g_in |-> RequirementFromStr(g_in[i])]>>
    /\ UNCHANGED g_in
    /\ UNCHANGED <<load_vars, diff_vars, list_vars>>

RequirementNext == FromStrAll

RequirementSpec == RequirementInit /\ [][RequirementNext]_vars

(***************************************************************************)
(* What the claims speak of: the index of the archive a manifest was built *)
(* from, and the calls logged so far.                                      *)
(***************************************************************************)
IndexHashes(i) == {files[i].files[k].sha512 : k \in DOMAIN files[i].files}

\* the index entry that decides what is recorded for hash h (the last one with that hash)
IndexEntry(i, h) ==
    LET entries == files[i].files
    IN entries[CHOOSE k \in DOMAIN entries :
                  entries[k].sha512 = h /\ \A n \in DOMAIN entries : entries[n].sha512 = h => n <= k]

LastComponent(path) == SubSeq(path, Len(path), Len(path))

Calls(name) == {k \in DOMAIN http_log : http_log[k].call = name}

IsSortedListOf(list, S) ==
    /\ Len(list) = Cardinality(S)
    /\ Range(list) = S
    /\ \A a, b \in DOMAIN list : a < b => list[a] < list[b]

\* the Mod under project id p in manifest i was built for hash h
ModIsFor(i, p, h) ==
    /\ h \in DOMAIN versions
    /\ versions[h].project_id = p
    /\ modpacks[i].mods[p].version = versions[h].version_number

(***************************************************************************)
(* C1: in every manifest _load builds, every hash of the archive's index   *)
(* is accounted for exactly once: a hash of the known-hash set has a Mod   *)
(* under its project id, any other hash has its file name among the        *)
(* missing files; and the manifest holds nothing else: each Mod belongs to *)
(* a known hash of the index, each missing file to one that is not known.  *)
(***************************************************************************)
C1_EveryHashAccounted ==
    \A i \in DOMAIN modpacks :
        LET m == modpacks[i]
            known == IndexHashes(i) \cap known_hashes
            unknown == IndexHashes(i) \ known_hashes
        IN /\ \A h \in known : h \in DOMAIN versions /\ versions[h].project_id \in DOMAIN m.mods
           /\ \A h \in unknown : LastComponent(IndexEntry(i, h).path) \in m.missing_mods
           /\ \A p \in DOMAIN m.mods : \E h \in known : ModIsFor(i, p, h)
           /\ \A n \in m.missing_mods :
                 \E h \in unknown : n = LastComponent(IndexEntry(i, h).path)

C1_Witness ==
    /\ pc = "returned"
    /\ \E i \in DOMAIN modpacks :
          /\ DOMAIN modpacks[i].mods # {}
          /\ modpacks[i].missing_mods # {}

(***************************************************************************)
(* C2: a resolution that gets past its lookups has issued exactly one      *)
(* hash lookup, carrying the sorted union of the hashes of all archives,   *)
(* and exactly one project lookup, carrying the sorted distinct project    *)
(* ids of the first response; no resolution ever issues more than one of   *)
(* either, whatever the number of archives.                                *)
(***************************************************************************)
C2_OneLookupOfEach ==
    /\ Cardinality(Calls("version_files")) <= 1
    /\ Cardinality(Calls("projects")) <= 1
    /\ pc \in {"fetch_projects", "stubs", "resolve", "returned"} =>
          /\ Len(http_log) >= 1
          /\ http_log[1].call = "version_files"
          /\ IsSortedListOf(http_log[1].payload, UNION {IndexHashes(i) : i \in DOMAIN files})
    /\ pc \in {"stubs", "resolve", "returned"} =>
          /\ Len(http_log) = 2
          /\ http_log[2].call = "projects"
          /\ IsSortedListOf(http_log[2].payload,
                            {versions[h].project_id : h \in DOMAIN versions})

C2_Witness ==
    /\ pc = "returned"
    /\ Len(files) = 2
    /\ IndexHashes(1) \cap IndexHashes(2) # {}
    /\ Cardinality(IndexHashes(1) \cup IndexHashes(2)) = 2
    /\ Len(http_log[2].payload) = 2

(***************************************************************************)
(* C3: the project lookup is issued only after the hash lookup has         *)
(* returned; a registry call that errors ends the resolution with that     *)
(* error and no manifest, no call is issued twice, and after a failed hash *)
(* lookup no project lookup is issued.                                     *)
(***************************************************************************)
C3_SequentialNoRetry ==
    /\ \A k \in Calls("projects") :
          /\ k = 2
          /\ http_log[1].call = "version_files"
          /\ ~(error.type \in TransportErrors /\ error.cause = "version_files")
    /\ error.type \in TransportErrors =>
          /\ pc = "raised"
          /\ modpacks = <<>>
          /\ Cardinality(Calls("version_files")) = 1
          /\ Cardinality(Calls("projects")) = (IF error.cause = "projects" THEN 1 ELSE 0)

C3_Witness ==
    /\ pc = "raised"
    /\ error.type = "Timeout"
    /\ error.cause = "projects"
    /\ Len(http_log) = 2

(***************************************************************************)
(* C4: once the stub table is built and holds a usable stub for every      *)
(* project id of lookup #1, _load resolves a hash of an archive's index to *)
(* a Mod built from its project's stub if and only if the hash is in the   *)
(* known-hash set, also when the hash is known only through the file list  *)
(* of a record returned under another hash.                                *)
(***************************************************************************)
StubsUsable ==
    /\ pc = "returned" \/ (pc = "raised" /\ error.cause = "resolve")
    /\ \A p \in ProjectIds(versions) : p \in DOMAIN mod_stubs /\ mod_stubs[p].game_versions # {}

C4_KnownIffResolved ==
    StubsUsable =>
        \A i \in DOMAIN mrpacks : \A h \in IndexHashes(i) :
            IF h \in known_hashes
            THEN /\ pc = "returned"
                 /\ h \in DOMAIN versions
                 /\ versions[h].project_id \in DOMAIN modpacks[i].mods
                 /\ modpacks[i].mods[versions[h].project_id].name
                        = mod_stubs[versions[h].project_id].name
            ELSE pc = "returned" => \A p \in DOMAIN modpacks[i].mods : ~ModIsFor(i, p, h)

(***************************************************************************)
(* C5 as stated: a hash of the index that neither lookup response mentions *)
(* has its original path, as the index records it, among the missing       *)
(* files of the returned manifest, and no Mod of the manifest is for it.   *)
(***************************************************************************)
AbsentFromResponses(h) == h \notin DOMAIN versions /\ h \notin known_hashes

NoModFor(i, h) ==
    \A p \in DOMAIN modpacks[i].mods :
        \E g \in (IndexHashes(i) \cap known_hashes) \ {h} : ModIsFor(i, p, g)

C6_StubFailureIsModpackError ==
    (pc \in {"resolve", "returned", "raised"} /\ BadProjects # {}) =>
        LET first == CHOOSE k \in BadProjects : \A n \in BadProjects : k <= n
        IN /\ pc = "raised"
           /\ modpacks = <<>>
           /\ error.type = "ModpackError"
           /\ error.cause = StubCause(projects[first])
           /\ "title" \in DOMAIN projects[first] => error.title = projects[first]["title"]

(***************************************************************************)
(* The calls of _diff recorded so far, its two arguments, and the keys of  *)
(* the rows a call returned.                                               *)
(***************************************************************************)
DiffCalls == {i \in DOMAIN d_out : d_out[i].fn = "_diff"}

OldMap == d_old.dependencies

NewMap == d_new.dependencies

RowKeys(rows) == {rows[k][1] : k \in DOMAIN rows}

Unchanged == {k \in DOMAIN OldMap \cap DOMAIN NewMap : OldMap[k] = NewMap[k]}

IsChangedRow(row) ==
    /\ row[1] \in DOMAIN OldMap \cap DOMAIN NewMap
    /\ OldMap[row[1]] # NewMap[row[1]]
    /\ row = <<row[1], OldMap[row[1]], NewMap[row[1]]>>

IsAddedRow(row) ==
    /\ row[1] \in DOMAIN NewMap \ DOMAIN OldMap
    /\ row = <<row[1], "", NewMap[row[1]]>>

IsRemovedRow(row) ==
    /\ row[1] \in DOMAIN OldMap \ DOMAIN NewMap
    /\ row = <<row[1], OldMap[row[1]], "">>

\* 1, 2, 3 for a changed, an added, a removed row; 0 for a row that is none of them
Bucket(row) ==
    IF IsChangedRow(row) THEN 1 ELSE IF IsAddedRow(row) THEN 2
    ELSE IF IsRemovedRow(row) THEN 3 ELSE 0

\* the place of a key in the case-insensitive order: "a" and "A" before "b" and "B"
FoldedRank(k) == IF k \in {"a", "A"} THEN 1 ELSE 2

(***************************************************************************)
(* C7 as stated: the keys of the rows _diff returns are exactly the keys   *)
(* of old united with the keys of new.                                     *)
(***************************************************************************)
C7_RowKeysAreAllKeys ==
    \A i \in DiffCalls : RowKeys(d_out[i].rows) = DOMAIN OldMap \cup DOMAIN NewMap

(***************************************************************************)
(* C7 amended: the keys of the rows are the keys of old united with the    *)
(* keys of new, less the keys present in both with equal values, which get *)
(* no row; every other key has exactly one row, in exactly one of the      *)
(* changed, added and removed buckets.                                     *)
(***************************************************************************)
C7_RowKeysAreDifferingKeys ==
    \A i \in DiffCalls :
        LET rows == d_out[i].rows
        IN /\ RowKeys(rows) = (DOMAIN OldMap \cup DOMAIN NewMap) \ Unchanged
           /\ \A a, b \in DOMAIN rows : a # b => rows[a][1] # rows[b][1]
           /\ \A a \in DOMAIN rows :
                 Cardinality({x \in {1, 2, 3} : Bucket(rows[a]) = x}) = 1

C7_Witness ==
    \E i \in DiffCalls :
        /\ Unchanged # {}
        /\ Len(d_out[i].rows) = 2

(***************************************************************************)
(* C8: diffing anything against itself yields no rows: _diff on a map and  *)
(* itself, and _modpack_data, _mods, _unknown_mods and _other_files on a   *)
(* manifest and itself, return the empty sequence.                         *)
(***************************************************************************)
C8_SelfDiffIsEmpty ==
    \A i \in DOMAIN d_out :
        /\ (d_out[i].fn = "_diff" /\ OldMap = NewMap) => d_out[i].rows = <<>>
        /\ (d_out[i].fn # "_diff" /\ d_old = d_new) => d_out[i].rows = <<>>

C8_Witness ==
    /\ d_old = d_new
    /\ Cardinality(DOMAIN OldMap) >= 2
    /\ d_out # <<>>
    /\ d_out[1].fn = "_modpack_data"

(***************************************************************************)
(* C9: _diff returns the changed rows (key, old value, new value), then    *)
(* the added rows (key, "", new value), then the removed rows (key, old    *)
(* value, ""): one row per such key, each group sorted case-insensitively  *)
(* by key, no key in two groups.                                           *)
(***************************************************************************)
C9_GroupedAndSorted ==
    \A i \in DiffCalls :
        LET rows == d_out[i].rows
        IN /\ \A a \in DOMAIN rows : Bucket(rows[a]) \in {1, 2, 3}
           /\ \A a, b \in DOMAIN rows : a < b =>
                 /\ Bucket(rows[a]) <= Bucket(rows[b])
                 /\ rows[a][1] # rows[b][1]
                 /\ Bucket(rows[a]) = Bucket(rows[b]) =>
                       FoldedRank(rows[a][1]) <= FoldedRank(rows[b][1])
           /\ \A k \in (DOMAIN OldMap \cup DOMAIN NewMap) \ Unchanged :
                 \E a \in DOMAIN rows : rows[a][1] = k

C9_Witness ==
    \E i \in DiffCalls :
        LET rows == d_out[i].rows
        IN /\ Len(rows) = 3
           /\ Bucket(rows[1]) = 1
           /\ Bucket(rows[2]) = 2
           /\ Bucket(rows[3]) = 2
           /\ rows[2][1] = "a"
           /\ rows[3][1] = "B"

(***************************************************************************)
(* C10: the rows _diff returns are a function of the contents of the two   *)
(* maps: any two calls on the same maps return the same sequence, also     *)
(* when two keys of one bucket differ only in letter case.                 *)
(***************************************************************************)
C10_DiffIsDeterministic ==
    \A i, j \in DiffCalls : d_out[i].rows = d_out[j].rows

(***************************************************************************)
(* The result of diff.run, the map a row of its table was computed from    *)
(* (told by the row's label or by the values it carries), and the text of  *)
(* the versions the manifests target.                                      *)
(***************************************************************************)
RunDone == d_out # <<>> /\ d_out[1].fn = "run"

RunRows == d_out[1].rows

RowSection(row) ==
    IF row[1] = "Name" THEN 0
    ELSE IF row[1] = "modpack name" THEN 1
    ELSE IF row[1] = "modpack version" THEN 2
    ELSE IF row[1] = "minecraft" THEN 3
    ELSE IF {row[2], row[3]} \cap {"d1", "d2"} # {} THEN 4
    ELSE IF {row[2], row[3]} \cap {"m1", "m2", "m3"} # {} THEN 5
    ELSE IF {row[2], row[3]} \cap {"u1", "u2"} # {} THEN 6
    ELSE 7

VersionText(v) ==
    IF v = <<1, 19, 2>> THEN <<"1", ".", "1", "9", ".", "2">>
    ELSE <<"1", ".", "1", "9", ".", "4">>

SectionRows(n) == {i \in DOMAIN RunRows : RowSection(RunRows[i]) = n}

DifferingKeys(old, new) ==
    (DOMAIN old \cup DOMAIN new) \ {k \in DOMAIN old \cap DOMAIN new : old[k] = new[k]}

(***************************************************************************)
(* C11: the table of diff.run is the header row, then the scalar rows      *)
(* "modpack name", "modpack version", "minecraft" (each present exactly    *)
(* when the field differs, in that order), then the dependency rows, the   *)
(* mod rows, the unknown-file rows and the other-file rows; no row of a    *)
(* later section precedes a row of an earlier one.                         *)
(***************************************************************************)
C11_RunSectionsInOrder ==
    RunDone =>
        /\ RunRows[1] = <<"Name", "Old", "New">>
        /\ SectionRows(0) = {1}
        /\ \A i, j \in DOMAIN RunRows :
              i < j => RowSection(RunRows[i]) <= RowSection(RunRows[j])
        /\ IF d_old.name # d_new.name
           THEN \E i \in DOMAIN RunRows :
                   /\ SectionRows(1) = {i}
                   /\ RunRows[i] = <<"modpack name", d_old.name, d_new.name>>
           ELSE SectionRows(1) = {}
        /\ IF d_old.version # d_new.version
           THEN \E i \in DOMAIN RunRows :
                   /\ SectionRows(2) = {i}
                   /\ RunRows[i] = <<"modpack version", d_old.version, d_new.version>>
           ELSE SectionRows(2) = {}
        /\ IF d_old.game_version # d_new.game_version
           THEN \E i \in DOMAIN RunRows :
                   /\ SectionRows(3) = {i}
                   /\ RunRows[i] = <<"minecraft", VersionText(d_old.game_version),
                                     VersionText(d_new.game_version)>>
           ELSE SectionRows(3) = {}
        /\ {RunRows[i][1] : i \in SectionRows(4)}
              = DifferingKeys(d_old.dependencies, d_new.dependencies)
        /\ {RunRows[i][1] : i \in SectionRows(6)}
              = DifferingKeys(d_old.unknown_mods, d_new.unknown_mods)
        /\ {RunRows[i][1] : i \in SectionRows(7)}
              = DifferingKeys(d_old.other_files, d_new.other_files)
        /\ \A i \in SectionRows(5) :
              RunRows[i][1] \in {d_old.mods[k].name : k \in DOMAIN d_old.mods}
                                 \cup {d_new.mods[k].name : k \in DOMAIN d_new.mods}

C11_Witness ==
    /\ RunDone
    /\ \A n \in 0..7 : SectionRows(n) # {}

(***************************************************************************)
(* Two manifests that differ only in the version of the mod of one         *)
(* project: x is that mod in old, y in new.                                *)
(***************************************************************************)
ModsOfManifest(m) == {m.mods[k] : k \in DOMAIN m.mods}

OnlyVersionDiffers(x, y) ==
    /\ x \in ModsOfManifest(d_old)
    /\ y \in ModsOfManifest(d_new)
    /\ x.id = y.id
    /\ x.name = y.name
    /\ x.version # y.version
    /\ ModsOfManifest(d_old) \ {x} = ModsOfManifest(d_new) \ {y}
    /\ d_old.name = d_new.name
    /\ d_old.version = d_new.version
    /\ d_old.game_version = d_new.game_version
    /\ d_old.dependencies = d_new.dependencies
    /\ d_old.unknown_mods = d_new.unknown_mods
    /\ d_old.other_files = d_new.other_files

NameIsShared(x) == \E z \in ModsOfManifest(d_old) : z.id # x.id /\ z.name = x.name

ListRunDone == l_out # <<>> /\ l_out[1].fn = "run"

ListModsDone == l_out # <<>> /\ l_out[1].fn = "_mods"

Rendered == Len(l_out) = 2 /\ l_out[2].fn = "render"

ListTable == l_out[1].table

TextOfVersion(v) ==
    CASE v = <<1, 9>> -> <<"1", ".", "9">>
      [] v = <<1, 19, 2>> -> <<"1", ".", "1", "9", ".", "2">>
      [] v = <<1, 19, 4>> -> <<"1", ".", "1", "9", ".", "4">>
      [] v = <<1, 20>> -> <<"1", ".", "2", "0">>

\* 1.9 < 1.19.2 < 1.19.4 < 1.20
NumericRank(v) ==
    CASE v = <<1, 9>> -> 1 [] v = <<1, 19, 2>> -> 2 [] v = <<1, 19, 4>> -> 3 [] v = <<1, 20>> -> 4

\* the column of version v in a table whose version columns are those of the set S
ColumnOf(v, S) == 6 + Cardinality({w \in S : NumericRank(w) <= NumericRank(v)})

ListModSet == {l_modpack.mods[k] : k \in DOMAIN l_modpack.mods}

NumDeps == Cardinality(DOMAIN l_modpack.dependencies)

NumMods == Len(l_modpack.mods)

NumUnknown == Cardinality(DOMAIN l_modpack.unknown_mods)

NumOther == Cardinality(DOMAIN l_modpack.other_files)

(***************************************************************************)
(* C13: list.run checks the versions the caller supplied together with the *)
(* manifest's own game version, and the header row is the six fixed        *)
(* columns followed by one column per checked version, in ascending        *)
(* numeric order (in dev mode the five dev columns come after them).       *)
(***************************************************************************)
C13_CheckedVersionsInHeader ==
    ListRunDone =>
        LET checked == l_out[1].checked
            header == ListTable[1]
            n == Cardinality(checked)
        IN /\ checked = l_game_versions \cup {l_modpack.game_version}
           /\ l_modpack.game_version \in checked
           /\ SubSeq(header, 1, 6) = <<"Name", "Link", "Installed version", "On client",
                                       "On server", "Latest game version">>
           /\ Len(header) = 6 + n + (IF l_dev THEN 5 ELSE 0)
           /\ \A v \in checked : header[ColumnOf(v, checked)] = TextOfVersion(v)
           /\ l_dev => SubSeq(header, 7 + n, 11 + n)
                         = <<"License", "Modrinth client", "Modrinth server", "Source", "Issues">>

C13_Witness ==
    /\ ListRunDone
    /\ l_game_versions = {<<1, 9>>, <<1, 20>>}
    /\ l_modpack.game_version = <<1, 19, 4>>
    /\ Len(ListTable[1]) = 9

(***************************************************************************)
(* C14: after the header the listing has the modpack row, the minecraft    *)
(* row, one row per dependency, one row per mod, one row per unknown file  *)
(* and one row per other file, in this order of classes.                   *)
(***************************************************************************)
C14_RowClassesInOrder ==
    ListRunDone =>
        LET t == ListTable
            deps == 4..(3 + NumDeps)
            mods == (4 + NumDeps)..(3 + NumDeps + NumMods)
            unknown == (4 + NumDeps + NumMods)..(3 + NumDeps + NumMods + NumUnknown)
            other == (4 + NumDeps + NumMods + NumUnknown)
                        ..(3 + NumDeps + NumMods + NumUnknown + NumOther)
        IN /\ Len(t) = 3 + NumDeps + NumMods + NumUnknown + NumOther
           /\ t[2][1] = <<"modpack: ", l_modpack.name>>
           /\ t[2][3] = l_modpack.version
           /\ t[3][1] = "minecraft"
           /\ t[3][3] = TextOfVersion(l_modpack.game_version)
           /\ {t[i][1] : i \in deps} = DOMAIN l_modpack.dependencies
           /\ \A i \in deps : t[i][3] = l_modpack.dependencies[t[i][1]] /\ t[i][2] = ""
           /\ {<<t[i][1], t[i][2], t[i][3]>> : i \in mods}
                 = {<<mod.name, mod.link, mod.version>> : mod \in ListModSet}
           /\ {t[i][1] : i \in unknown} = DOMAIN l_modpack.unknown_mods
           /\ \A i \in unknown :
                 /\ t[i][2] = "unknown - probably CurseForge"
                 /\ t[i][3] = l_modpack.unknown_mods[t[i][1]]
           /\ {t[i][1] : i \in other} = DOMAIN l_modpack.other_files
           /\ \A i \in other :
                 /\ t[i][2] = "non-mod file"
                 /\ t[i][3] = l_modpack.other_files[t[i][1]]

C14_Witness ==
    /\ ListRunDone
    /\ NumDeps = 2
    /\ NumMods = 2
    /\ NumUnknown = 2
    /\ NumOther = 2
    /\ Len(ListTable) = 11

(***************************************************************************)
(* C15: in the listing the dependency rows are sorted case-insensitively   *)
(* by key and the mod rows case-insensitively by display name.             *)
(***************************************************************************)
C15_RowsSortedCaseInsensitively ==
    ListRunDone =>
        LET t == ListTable
            deps == 4..(3 + NumDeps)
            mods == (4 + NumDeps)..(3 + NumDeps + NumMods)
        IN /\ \A i, j \in deps : i < j => FoldedRank(t[i][1]) <= FoldedRank(t[j][1])
           /\ \A i, j \in mods : i < j => FoldedRank(t[i][1]) <= FoldedRank(t[j][1])

(***************************************************************************)
(* C16: in the result of _mods, the cell of mod m for version v is "yes"   *)
(* when v is one of the versions m supports and "no" otherwise, m is in    *)
(* the incompatibility set of v exactly when the cell is "no", and the     *)
(* keys of the incompatibility map are exactly the checked versions.       *)
(***************************************************************************)
C16_CellsMatchIncompatibility ==
    ListModsDone =>
        LET rows == l_out[1].rows
            incompatible == l_out[1].incompatible
        IN /\ DOMAIN incompatible = l_game_versions
           /\ Len(rows) = NumMods
           /\ \A mod \in ListModSet :
                 \E i \in DOMAIN rows :
                     /\ rows[i][2] = mod.link
                     /\ \A v \in l_game_versions :
                           LET cell == rows[i][ColumnOf(v, l_game_versions)]
                           IN /\ cell = (IF v \in mod.game_versions THEN "yes" ELSE "no")
                              /\ (mod \in incompatible[v]) <=> (cell = "no")
           /\ \A v \in l_game_versions : incompatible[v] \subseteq ListModSet

C16_Witness ==
    /\ ListModsDone
    /\ NumMods = 2
    /\ l_game_versions = {<<1, 9>>, <<1, 20>>}
    /\ Cardinality(l_out[1].incompatible[<<1, 20>>]) = 1
    /\ Cardinality(l_out[1].incompatible[<<1, 9>>]) = 2

(***************************************************************************)
(* The scenario of C17: mod A (project 1, named "a") supports 1.19.2 and   *)
(* 1.20, mod B (project 2, named "B") supports 1.19.4 and 1.19.2, the      *)
(* manifest targets 1.19.4 and the caller adds 1.20.                       *)
(***************************************************************************)
Scenario ==
    /\ Rendered
    /\ ListModSet = {ListMod(1, "B"), ListMod(2, "B")}
    /\ l_modpack.game_version = <<1, 19, 4>>
    /\ l_game_versions = {<<1, 20>>}

\* the row of the table for the mod of project p
ScenarioRow(p) ==
    ListTable[CHOOSE i \in DOMAIN ListTable :
                  i > 3 + NumDeps /\ i <= 3 + NumDeps + NumMods
                  /\ ListTable[i][2] = ListMod(p, "B").link]

ScenarioCells ==
    /\ ScenarioRow(1)[7] = "no"
    /\ ScenarioRow(1)[8] = "yes"
    /\ ScenarioRow(2)[7] = "yes"
    /\ ScenarioRow(2)[8] = "no"

\* the rendered summary for the version with the given text lists exactly one mod, name
SummaryLists(text, name) ==
    \E i \in DOMAIN l_out[2].text :
        /\ l_out[2].text[i].game_version = text
        /\ l_out[2].text[i].names = <<name>>
        /\ l_out[2].text[i].count = 1
        /\ l_out[2].text[i].total = 2

(***************************************************************************)
(* C17 as stated: in the scenario the table marks A "no" for 1.19.4 and    *)
(* "yes" for 1.20 and B "yes" for 1.19.4 and "no" for 1.20, the summary    *)
(* for 1.19.4 lists B with count 1 and the summary for 1.20 lists A with   *)
(* count 1.                                                                *)
(***************************************************************************)
C17_ScenarioAsStated ==
    Scenario =>
        /\ ScenarioCells
        /\ SummaryLists(<<"1", ".", "1", "9", ".", "4">>, "B")
        /\ SummaryLists(<<"1", ".", "2", "0">>, "a")

(***************************************************************************)
(* C17 amended: the cells are as stated, and each summary lists the mod    *)
(* whose cell is "no": the summary for 1.19.4 lists A with count 1 (of 2)  *)
(* and the summary for 1.20 lists B with count 1 (of 2).                   *)
(***************************************************************************)
C17_ScenarioSummariesFollowCells ==
    Scenario =>
        /\ ScenarioCells
        /\ Len(l_out[2].text) = 2
        /\ SummaryLists(<<"1", ".", "1", "9", ".", "4">>, "a")
        /\ SummaryLists(<<"1", ".", "2", "0">>, "B")

C17_Witness ==
    /\ Scenario
    /\ Len(l_out[1].summaries) = 2

(***************************************************************************)
(* C18: for every checked version v the rendered summary reports as count  *)
(* the number of mods (project ids) of the manifest that do not support v  *)
(* and as total the number of mods of the manifest, also when two mods     *)
(* share a display name.                                                   *)
(***************************************************************************)
C18_CountIsNumberOfIncompatibleMods ==
    Rendered =>
        /\ Len(l_out[2].text) = Cardinality(l_out[1].checked)
        /\ \A v \in l_out[1].checked :
              \E i \in DOMAIN l_out[2].text :
                  /\ l_out[2].text[i].game_version = TextOfVersion(v)
                  /\ l_out[2].text[i].count
                        = Cardinality({mod \in ListModSet : v \notin mod.game_versions})
                  /\ l_out[2].text[i].total = NumMods

(***************************************************************************)
(* The versions constructed from the strings g_in, once compared.          *)
(***************************************************************************)
Compared == Len(g_out) >= 2

Reconstructed == Len(g_out) = 4

Lt(i, j) == g_out[2].lt[i][j]

Eq(i, j) == g_out[2].eq[i][j]

OneOf(a, b, c) == (a /\ ~b /\ ~c) \/ (~a /\ b /\ ~c) \/ (~a /\ ~b /\ c)

(***************************************************************************)
(* C19: on the versions constructed from valid strings, < is a strict      *)
(* total order on the integer tuples: exactly one of a < b, a == b, b < a  *)
(* holds, < is transitive, "1.2" < "1.10", a two-segment version is less   *)
(* than a three-segment version that extends it ("1.20" < "1.20.1"), and   *)
(* == and hash follow the tuple.                                           *)
(***************************************************************************)
C19_StrictTotalNumericOrder ==
    Compared =>
        /\ \A i, j \in Constructed : OneOf(Lt(i, j), Eq(i, j), Lt(j, i))
        /\ \A i, j, k \in Constructed : (Lt(i, j) /\ Lt(j, k)) => Lt(i, k)
        /\ \A i, j \in Constructed :
              /\ (g_in[i] = <<"1", ".", "2">> /\ g_in[j] = <<"1", ".", "1", "0">>) => Lt(i, j)
              /\ (g_in[i] = <<"1", ".", "2", "0">>
                    /\ g_in[j] = <<"1", ".", "2", "0", ".", "1">>) => Lt(i, j)
              /\ (/\ Len(g_out[1][i].version) = 2
                  /\ Len(g_out[1][j].version) = 3
                  /\ SubSeq(g_out[1][j].version, 1, 2) = g_out[1][i].version) => Lt(i, j)
              /\ (/\ Len(g_out[1][i].version) = Len(g_out[1][j].version)
                  /\ \E n \in DOMAIN g_out[1][i].version :
                        /\ g_out[1][i].version[n] < g_out[1][j].version[n]
                        /\ \A m \in 1..(n - 1) :
                              g_out[1][i].version[m] = g_out[1][j].version[m]) => Lt(i, j)
              /\ Eq(i, j) <=> (g_out[1][i].version = g_out[1][j].version)
              /\ Eq(i, j) => g_out[2].hash[i] = g_out[2].hash[j]

C19_Witness ==
    /\ Compared
    /\ g_in = <<(<<"1", ".", "2">>), (<<"1", ".", "1", "0">>), (<<"1", ".", "2", "0", ".", "1">>)>>
    /\ Lt(1, 2)
    /\ Lt(2, 3)
    /\ Lt(1, 3)

(***************************************************************************)
(* The canonical dotted string of a string that matches the grammar: its   *)
(* segments, each without leading zeros, joined by dots.                   *)
(***************************************************************************)
RECURSIVE StripZeros(_)
StripZeros(seg) ==
    IF Len(seg) > 1 /\ seg[1] = "0" THEN StripZeros(Tail(seg)) ELSE seg

Canonical(str) ==
    LET segs == SplitDots(str)
    IN JoinDots([i \in DOMAIN segs |-> StripZeros(segs[i])])

\* [0-9]+\.[0-9]+(\.[0-9]+)? read character by character
MatchesGrammar(str) ==
    LET dots == {i \in DOMAIN str : str[i] = "."}
    IN /\ Cardinality(dots) \in {1, 2}
       /\ \A i \in DOMAIN str : str[i] = "." \/ str[i] \in DigitChars
       /\ 1 \notin dots
       /\ Len(str) \notin dots
       /\ \A i \in dots : i + 1 \notin dots

(***************************************************************************)
(* C20: a string that matches the grammar is accepted and str() of its     *)
(* version is the canonical dotted string (which is the string itself      *)
(* unless a segment has leading zeros); constructing from that text gives  *)
(* an equal version that formats to the same text; a string that does not  *)
(* match the grammar is rejected.                                          *)
(***************************************************************************)
C20_ParseFormatRoundTrip ==
    Reconstructed =>
        \A i \in DOMAIN g_in :
            IF MatchesGrammar(g_in[i])
            THEN /\ i \in Constructed
                 /\ g_out[3][i] = Canonical(g_in[i])
                 /\ g_out[4][i].again.raised = ""
                 /\ g_out[4][i].again.version = g_out[1][i].version
                 /\ g_out[4][i].text = g_out[3][i]
            ELSE /\ i \notin Constructed
                 /\ g_out[1][i].raised = "ValueError"

C20_Witness ==
    /\ Reconstructed
    /\ g_in[1] = <<"1", ".", "0", "2">>
    /\ g_out[3][1] = <<"1", ".", "2">>
    /\ g_in[2] = <<"1", ".", "2", "0", ".", "1">>
    /\ g_out[3][2] = g_in[2]
    /\ g_in[3] = <<"1", "9", ".", "2", "-", "d", "e", "v">>
    /\ 3 \notin Constructed

(***************************************************************************)
(* The list g_in once given to GameVersion.from_list, and the Mod once     *)
(* constructed from the set obtained.                                      *)
(***************************************************************************)
FromListDone == Len(g_out) >= 5

ModConstructed == Len(g_out) >= 6

(***************************************************************************)
(* C21: GameVersion.from_list on a list of strings does not raise and      *)
(* returns exactly the set of the versions of the entries that match the   *)
(* grammar, equal versions counted once; every other entry is dropped,     *)
(* whereas constructing a GameVersion from such an entry raises.           *)
(***************************************************************************)
C21_FromListKeepsExactlyTheValid ==
    FromListDone =>
        /\ g_out[5].raised = ""
        /\ g_out[5].versions
              = {g_out[1][i].version : i \in {k \in DOMAIN g_in : MatchesGrammar(g_in[k])}}
        /\ \A i \in DOMAIN g_in :
              ~MatchesGrammar(g_in[i]) => g_out[1][i].raised = "ValueError"
        /\ Cardinality(g_out[5].versions)
              <= Cardinality({k \in DOMAIN g_in : MatchesGrammar(g_in[k])})

C21_Witness ==
    /\ FromListDone
    /\ g_in = <<(<<"1", ".", "2">>), (<<"1", ".", "0", "2">>), (<<"1">>)>>
    /\ g_out[5].versions = {<<1, 2>>}
    /\ g_out[1][3].raised = "ValueError"

(***************************************************************************)
(* C22: a constructed Mod has as latest_game_version the maximum of its    *)
(* supported versions under the numeric ordering (a member of the set that *)
(* no member exceeds); constructing a Mod with an empty supported set      *)
(* raises and gives no Mod.                                                *)
(***************************************************************************)
C22_LatestIsMaximumOrConstructionFails ==
    ModConstructed =>
        IF g_out[5].versions = {}
        THEN g_out[6].raised = "ValueError" /\ "mod" \notin DOMAIN g_out[6]
        ELSE /\ g_out[6].raised = ""
             /\ g_out[6].mod.game_versions = g_out[5].versions
             /\ \E i \in Constructed :
                   /\ g_out[6].mod.latest_game_version = g_out[1][i].version
                   /\ \A j \in Constructed : ~Lt(i, j)

C22_Witness ==
    /\ ModConstructed
    /\ g_in = <<(<<"1", ".", "1", "0">>), (<<"1", ".", "2", ".", "3", ".", "4">>), (<<"1", ".", "2">>)>>
    /\ g_out[6].raised = ""
    /\ g_out[6].mod.latest_game_version = <<1, 10>>

(***************************************************************************)
(* C23: Requirement.from_str maps the empty string and "unknown" to        *)
(* UNKNOWN, "required", "optional" and "unsupported" to the members of     *)
(* those names, and raises for every other string.                         *)
(***************************************************************************)
C23_FromStrAcceptsUnknown ==
    g_out # <<>> =>
        \A i \in DOMAIN g_in :
            g_out[1][i] = CASE g_in[i] \in {"", "unknown"} -> "UNKNOWN"
                            [] g_in[i] = "required" -> "REQUIRED"
                            [] g_in[i] = "optional" -> "OPTIONAL"
                            [] g_in[i] = "unsupported" -> "UNSUPPORTED"
                            [] OTHER -> "ValueError"

(***************************************************************************)
(* The archive given to from_file, and what is wrong with it: the messages *)
(* of the failures its content causes.                                     *)
(***************************************************************************)
Archive == files[1]

Parsed == pc # "from_files"

EnvDefects(entries) ==
    {"Env must have keys {client, server}" :
        i \in {k \in WithEnv(entries) : DOMAIN entries[k].env # {"client", "server"}}}
    \cup {"Requirement value must be one of {required, optional, unsupported}" :
        i \in {k \in WithEnv(entries) :
                  \E key \in DOMAIN entries[k].env \cap {"client", "server"} :
                      entries[k].env[key] \notin {"", "required", "optional", "unsupported"}}}

Defects(archive) ==
    IF ~archive.readable THEN {archive.defect}
    ELSE {"'" \o key \o "'" : key \in {"name", "versionId", "dependencies", "files"} \ DOMAIN archive}
         \cup (IF "dependencies" \in DOMAIN archive
                THEN IF "minecraft" \notin DOMAIN archive.dependencies THEN {"'minecraft'"}
                     ELSE IF ~MatchesGrammar(archive.dependencies["minecraft"])
                          THEN {"Not a valid game version"}
                          ELSE {}
                ELSE {})
         \cup (IF "files" \in DOMAIN archive THEN EnvDefects(archive.files) ELSE {})

(***************************************************************************)
(* C24: whatever fails while an archive is loaded (the zip cannot be read, *)
(* the index is missing or is not JSON, a required key is missing, the     *)
(* "minecraft" version does not parse, an "env" block has the wrong keys   *)
(* or a value from_str rejects), from_file raises ModpackError with the    *)
(* message of one of the causes present, and returns no parsed archive.    *)
(***************************************************************************)
C24_EveryFailureIsModpackError ==
    /\ (Parsed /\ Defects(Archive) # {}) => pc = "raised"
    /\ pc = "raised" =>
          /\ error.type = "ModpackError"
          /\ error.cause \in Defects(Archive)
          /\ mrpacks = <<>>

C24_Witness ==
    /\ pc = "raised"
    /\ Archive.readable
    /\ "versionId" \notin DOMAIN Archive
    /\ "files" \in DOMAIN Archive
    /\ Len(Archive.files) = 1
    /\ "env" \in DOMAIN Archive.files[1]
    /\ Archive.files[1].env = [client |-> "required", server |-> "foo"]
    /\ error.type = "ModpackError"
    /\ error.cause = "'versionId'"

(***************************************************************************)
(* C25: every entry of the archive under one of the three override trees   *)
(* is classified, under its archive path, as exactly one of unknown file   *)
(* (its name ends in .jar) or other file; an entry outside the trees is in *)
(* neither; the index plays no part in it.                                 *)
(***************************************************************************)
OverrideTrees == {"overrides", "server-overrides", "client-overrides"}

UnknownKeys(parsed) == parsed.unknown_mods

OtherKeys(parsed) ==
    IF "other_files" \in DOMAIN parsed THEN DOMAIN parsed.other_files ELSE {}

C25_OverrideEntriesKeyedByPath ==
    (pc = "fetch_versions" /\ Len(mrpacks) = 1) =>
        \A k \in DOMAIN Archive.namelist :
            LET path == Archive.namelist[k]
                under == Len(path) >= 2 /\ path[1] \in OverrideTrees
                jar == Suffix(path[Len(path)]) = ".jar"
            IN /\ (under /\ jar) =>
                     path \in UnknownKeys(mrpacks[1]) /\ path \notin OtherKeys(mrpacks[1])
               /\ (under /\ ~jar) =>
                     path \in OtherKeys(mrpacks[1]) /\ path \notin UnknownKeys(mrpacks[1])
               /\ ~under =>
                     path \notin UnknownKeys(mrpacks[1]) /\ path \notin OtherKeys(mrpacks[1])

(***************************************************************************)
(* What the registry declared for a project: the record returned for its   *)
(* id, and the environment that record declares (unknown where it says     *)
(* nothing).                                                               *)
(***************************************************************************)
ProjectRecord(p) == projects[CHOOSE k \in DOMAIN projects : projects[k]["id"] = p]

RequirementOf(s) ==
    CASE s \in {"", "unknown"} -> "UNKNOWN"
      [] s = "required" -> "REQUIRED"
      [] s = "optional" -> "OPTIONAL"
      [] s = "unsupported" -> "UNSUPPORTED"

DeclaredEnv(record) ==
    [client |-> RequirementOf(Get(record, "client_side", "")),
     server |-> RequirementOf(Get(record, "server_side", ""))]

DeclaresOverride(i, h) ==
    \E k \in DOMAIN files[i].files :
        files[i].files[k].sha512 = h /\ "env" \in DOMAIN files[i].files[k]

StubFields(mod) ==
    <<mod.name, mod.link, mod.original_env, mod.mod_license, mod.source_url,
      mod.issues_url, mod.game_versions>>

(***************************************************************************)
(* C26: in the manifests _load returns, for each archive and each known    *)
(* hash h of its index, the Mod under h's project id has the version       *)
(* number lookup #1 returned for h, and as overridden environment the      *)
(* archive's override for h if it declares one, else the environment the   *)
(* project declares; the declared environment (unknown/unknown when the    *)
(* record omits it), the name, the license and the URLs (empty when        *)
(* omitted) come from the project record and are the same for that project *)
(* in every manifest of the batch.                                         *)
(***************************************************************************)
C26_ModCarriesOwnVersionAndEnv ==
    pc = "returned" =>
        /\ \A i \in DOMAIN modpacks : \A h \in IndexHashes(i) \cap known_hashes :
              /\ h \in DOMAIN versions
              /\ versions[h].project_id \in DOMAIN modpacks[i].mods
              /\ LET p == versions[h].project_id
                     record == ProjectRecord(p)
                     mod == modpacks[i].mods[p]
                 IN /\ mod.version = versions[h].version_number
                    /\ mod.overridden_env = IF DeclaresOverride(i, h)
                                            THEN [client |-> "REQUIRED", server |-> "OPTIONAL"]
                                            ELSE DeclaredEnv(record)
                    /\ mod.original_env = DeclaredEnv(record)
                    /\ mod.name = record["title"]
                    /\ mod.mod_license
                          = (IF "license" \in DOMAIN record THEN record["license"]["id"] ELSE "")
                    /\ mod.source_url = Get(record, "source_url", "")
                    /\ mod.issues_url = Get(record, "issues_url", "")
        /\ \A i, j \in DOMAIN modpacks :
              \A p \in DOMAIN modpacks[i].mods \cap DOMAIN modpacks[j].mods :
                  StubFields(modpacks[i].mods[p]) = StubFields(modpacks[j].mods[p])

(***************************************************************************)
(* C27: _load returns one manifest per archive, in the order of the        *)
(* archives, and the i-th manifest has the name, version, target-platform  *)
(* version, dependencies, unknown files and other files of the i-th parsed *)
(* archive, none of them taken from another archive of the batch.          *)
(***************************************************************************)
OwnField(i, field) ==
    /\ field \in DOMAIN modpacks[i]
    /\ field \in DOMAIN mrpacks[i]
    /\ modpacks[i][field] = mrpacks[i][field]

C27_ManifestKeepsOwnArchiveFields ==
    pc = "returned" =>
        /\ Len(modpacks) = Len(files)
        /\ \A i \in DOMAIN modpacks :
              /\ modpacks[i].name = files[i].name
              /\ modpacks[i].version = files[i].versionId
              /\ modpacks[i].game_version = mrpacks[i].game_version
              /\ OwnField(i, "unknown_mods")
              /\ OwnField(i, "dependencies")
              /\ OwnField(i, "other_files")

(***************************************************************************)
(* C28: Modpack.from_files parses every archive before any request to the  *)
(* registry: once a request has been issued every archive has been parsed, *)
(* and when some archive of the batch cannot be parsed, ModpackError is    *)
(* raised, neither lookup is ever issued and no manifest is built, even    *)
(* when the other archives are valid.                                      *)
(***************************************************************************)
C28_AllParsedBeforeAnyLookup ==
    /\ http_log # <<>> =>
          /\ Len(mrpacks) = Len(files)
          /\ \A i \in DOMAIN files : Defects(files[i]) = {}
    /\ (\E i \in DOMAIN files : Defects(files[i]) # {}) =>
          /\ http_log = <<>>
          /\ modpacks = <<>>
          /\ pc \in {"from_files", "raised"}
          /\ pc = "raised" => error.type = "ModpackError"

C28_Witness ==
    /\ pc = "raised"
    /\ error.type = "ModpackError"
    /\ Len(files) = 2
    /\ files[1].readable
    /\ files[1].files # <<>>
    /\ ~files[2].readable
    /\ Len(mrpacks) = 1
    /\ http_log = <<>>

(***************************************************************************)
(* The known and the unrecognised hashes of the index of archive i, and    *)
(* the collisions among them.                                              *)
(***************************************************************************)
KnownOf(i) == IndexHashes(i) \cap known_hashes

UnrecognisedOf(i) == IndexHashes(i) \ known_hashes

SameProject(i) ==
    {pair \in KnownOf(i) \X KnownOf(i) :
        /\ pair[1] # pair[2]
        /\ versions[pair[1]].project_id = versions[pair[2]].project_id}

SameFileName(i) ==
    {pair \in UnrecognisedOf(i) \X UnrecognisedOf(i) :
        /\ pair[1] # pair[2]
        /\ LastComponent(IndexEntry(i, pair[1]).path) = LastComponent(IndexEntry(i, pair[2]).path)}

Entries(i) == Cardinality(DOMAIN modpacks[i].mods) + Cardinality(modpacks[i].missing_mods)

(***************************************************************************)
(* C29: in every manifest built, the Mods and the missing files together   *)
(* number at most the hashes of the archive's index, and exactly as many   *)
(* when no two known hashes share a project id and no two unrecognised     *)
(* hashes share a recorded file name, and only then; two known hashes of   *)
(* one project leave a single Mod, with the version number of one of them, *)
(* and the iteration order of the hashes decides which: before such an     *)
(* archive is reconciled, either version number can still be the outcome.  *)
(***************************************************************************)
C29_EntriesAtMostHashes ==
    /\ \A i \in DOMAIN modpacks :
          /\ Entries(i) <= Cardinality(IndexHashes(i))
          /\ Entries(i) = Cardinality(IndexHashes(i))
                <=> (SameProject(i) = {} /\ SameFileName(i) = {})
          /\ \A pair \in SameProject(i) :
                LET p == versions[pair[1]].project_id
                IN /\ p \in DOMAIN modpacks[i].mods
                   /\ modpacks[i].mods[p].version
                         \in {versions[h].version_number :
                                h \in {g \in KnownOf(i) : versions[g].project_id = p}}
    /\ (pc = "resolve" /\ KnownOf(Len(modpacks) + 1) \subseteq DOMAIN versions) =>
          \A pair \in SameProject(Len(modpacks) + 1) :
              LET p == versions[pair[1]].project_id
                  outcomes == Resolutions(mrpacks[Len(modpacks) + 1])
              IN (\A r \in outcomes : r.raised = "") =>
                    \E r \in outcomes :
                        r.mods[p].version = versions[pair[1]].version_number

C29_Witness ==
    /\ pc = "returned"
    /\ Len(modpacks) = 1
    /\ IndexHashes(1) = {1, 2}
    /\ SameProject(1) # {}
    /\ DOMAIN modpacks[1].mods = {1}
    /\ modpacks[1].mods[1].version = versions[1].version_number
    /\ versions[1].version_number # versions[2].version_number
    /\ Entries(1) = 1

(***************************************************************************)
(* The mod rows of the table of diff.run that carry a given display name.  *)
(***************************************************************************)
ModRowsNamed(name) == {i \in SectionRows(5) : RunRows[i][1] = name}

VersionsNamed(m, name) == {z.version : z \in {w \in ModsOfManifest(m) : w.name = name}}

(***************************************************************************)
(* C30: in diff.run over two manifests of one batch, a project id present  *)
(* in the mods of both has the same display name in both; that name is     *)
(* then a key of both name-to-version maps, so it is never reported in an  *)
(* added or a removed row: the table has at most one mod row for it, and   *)
(* that row is a changed row, with an old and a new version that differ.   *)
(***************************************************************************)
C30_SharedProjectNeverAddedOrRemoved ==
    RunDone =>
        \A x \in ModsOfManifest(d_old), y \in ModsOfManifest(d_new) :
            x.id = y.id =>
                /\ x.name = y.name
                /\ Cardinality(ModRowsNamed(x.name)) <= 1
                /\ \A i \in ModRowsNamed(x.name) :
                      /\ RunRows[i][2] \in VersionsNamed(d_old, x.name)
                      /\ RunRows[i][3] \in VersionsNamed(d_new, x.name)
                      /\ RunRows[i][2] # RunRows[i][3]

C30_Witness ==
    /\ RunDone
    /\ \E x \in ModsOfManifest(d_old), y \in ModsOfManifest(d_new) :
          /\ x.id = y.id
          /\ x.version # y.version
          /\ \E z \in ModsOfManifest(d_new) : z.id # x.id
          /\ ModsOfManifest(d_old) = {x}
          /\ \E i \in ModRowsNamed(x.name) : RunRows[i] = <<x.name, x.version, y.version>>
          /\ \E i \in SectionRows(5) : RunRows[i][2] = ""

====
